---- MODULE Spec2Model ----
(***************************************************************************)
(* Model of the Maple Leafs game-update bot (index.js, nhl-api.js).        *)
(*                                                                         *)
(* The core is checkForGameUpdates: a timer starts one poll cycle per      *)
(* tick; a cycle awaits three upstream fetches, diffs the snapshots        *)
(* against the game's tracking record in activeGames and broadcasts goal,  *)
(* period-change and game-end notifications.  Every await of real I/O is   *)
(* a point where other callbacks (a further timer tick, a slash command)   *)
(* may run, so a cycle is modelled as one action per await.                *)
(***************************************************************************)
EXTENDS Integers, Sequences, FiniteSets, TLC

(* ------------------------------ bounds -------------------------------- *)

MaxPlays == 3
MaxInFlight == 2
MaxCount == 2
MaxDestinations == 2
MaxGames == 2
MaxHour == 6
MaxAssists == 2

(* --------------------------- value domains ---------------------------- *)

\* The tracked team plays one game at a time; one game id is modelled.
Games == {"G1"}
Guilds == {"g1"}
Channels == {"c1"}
NoChannel == "none"

\* Slots of concurrently running checkForGameUpdates calls.
Slots == 1 .. MaxInFlight

\* Identities of tracking-record objects.  A cycle keeps a reference to the
\* object it read at line 530 even after the object left the map.
Oids == 1 .. (MaxInFlight + 1)

\* The period descriptors the landing endpoint walks through.
PeriodDescriptors ==
  << [number |-> 1, periodType |-> "REG"],
     [number |-> 4, periodType |-> "OT"] >>

\* Clock value the landing endpoint reports in each period.
ClockOf(p) == IF p = 1 THEN "12:00" ELSE "03:00"

\* A play of the play-by-play log.  details = "invalid" stands for a goal
\* whose details.strength is a truthy non-string, so that
\* details.strength.toUpperCase() raises a TypeError.
GoalPlay(d) == [typeDescKey |-> "goal", details |-> d]
ShotPlay == [typeDescKey |-> "shot-on-goal", details |-> "valid"]
PlayKinds == {GoalPlay("valid"), GoalPlay("invalid"), ShotPlay}

(* ----------------------------- helpers -------------------------------- *)

RECURSIVE FilterPrepend(_, _)
\* A variant that builds the result back to front.
FilterPrepend(plays, key) ==
  IF plays = <<>> THEN <<>>
  ELSE IF Head(plays).typeDescKey = key
       THEN FilterPrepend(Tail(plays), key) \o <<Head(plays)>>
       ELSE FilterPrepend(Tail(plays), key)

RECURSIVE Filter(_, _)
\* plays.filter(p => p.typeDescKey === key)
Filter(plays, key) ==
  IF plays = <<>> THEN <<>>
  ELSE IF Head(plays).typeDescKey = key
       THEN <<Head(plays)>> \o Filter(Tail(plays), key)
       ELSE Filter(Tail(plays), key)

ScoringPlaysOf(plays) == Filter(plays, "goal")

\* Scores the landing endpoint reports: goals alternate home, away.
HomeScoreOf(plays) == (Len(ScoringPlaysOf(plays)) + 1) \div 2
AwayScoreOf(plays) == Len(ScoringPlaysOf(plays)) \div 2

\* Period label, index.js 540-548.
CurrentPeriodOrdinal(pd) ==
  IF pd.periodType = "OT" THEN "OT"
  ELSE IF pd.periodType = "SO" THEN "SO"
  ELSE "P" \o ToString(pd.number)

\* gameState === 'OFF' || gameState === 'FINAL'
IsTerminal(gameState) == gameState = "OFF" \/ gameState = "FINAL"

\* A variant that creates the record on every cycle.
NeedsTrackerAlways(a, g) == TRUE

\* index.js 505: a record is created only for a game that has none.
NeedsTracker(a, g) == a[g] = 0

\* index.js 566: the loop starts right after the cursor.
FirstNewIndex(lastScoringIdx) == lastScoringIdx + 1

\* A variant that stores the length of the list instead of its last index.
NextScoringIdxLength(lastScoringIdx, n) == IF n > 0 THEN n ELSE lastScoringIdx

\* index.js 679-681: the cursor after a pass over n scoring plays.
NextScoringIdx(lastScoringIdx, n) == IF n > 0 THEN n - 1 ELSE lastScoringIdx

\* A variant that takes any difference of labels for a period change.
ChooseUpdateAnyChange(label, gameState, lastPeriod, lastTimeRemaining) ==
  IF label # lastPeriod THEN "PERIOD_UPDATE"
  ELSE IF IsTerminal(gameState) /\ lastTimeRemaining # "Final" THEN "GAME_END"
  ELSE ""

\* index.js 684-707: the non-goal update of a cycle, "" for none.
ChooseUpdate(label, gameState, lastPeriod, lastTimeRemaining) ==
  IF label # lastPeriod /\ lastPeriod # "" THEN "PERIOD_UPDATE"
  ELSE IF IsTerminal(gameState) /\ lastTimeRemaining # "Final" THEN "GAME_END"
  ELSE ""

\* A variant that refreshes the period label and the clock only.
RefreshTrackerLabel(t, st, label) ==
  [t EXCEPT !.lastPeriod = label,
            !.lastTimeRemaining = (IF IsTerminal(st.gameState) THEN "Final"
                                   ELSE st.timeRemaining)]

\* A variant that stores the clock of a finished game as it is reported.
RefreshTrackerClock(t, st, label) ==
  [t EXCEPT !.lastHomeScore = st.homeScore,
            !.lastAwayScore = st.awayScore,
            !.lastPeriod = label,
            !.lastTimeRemaining = st.timeRemaining]

\* index.js 711-716: the record refreshed from the cycle's landing snapshot.
RefreshTracker(t, st, label) ==
  [t EXCEPT !.lastHomeScore = st.homeScore,
            !.lastAwayScore = st.awayScore,
            !.lastPeriod = label,
            !.lastTimeRemaining = (IF IsTerminal(st.gameState) THEN "Final"
                                   ELSE st.timeRemaining)]

\* The object stored by activeGames.set at index.js 506-514.  lastUpdate
\* (a wall-clock stamp, written and never read) and scoreChanges (never
\* written after creation) carry no behaviour and are left out.
\* seenLen is a history field: the length of the scoring list seen by the
\* last completed pass over this object, -1 if none.
NewTracker ==
  [allocated |-> TRUE,
   lastPeriod |-> "",
   lastHomeScore |-> 0,
   lastAwayScore |-> 0,
   lastTimeRemaining |-> "",
   lastScoringIdx |-> -1,
   seenLen |-> -1]

FreeTracker == [NewTracker EXCEPT !.allocated = FALSE]

NoStatus ==
  [gameState |-> "",
   periodDescriptor |-> PeriodDescriptors[1],
   homeScore |-> 0,
   awayScore |-> 0,
   timeRemaining |-> ""]

\* Locals of one checkForGameUpdates call.  emitted, startIdx, fresh,
\* recAtStart, prevOk, prevPeriod, prevTime, prevSeen, newIdx and deleted are history
\* fields.
IdleCycle ==
  [pc |-> "idle",
   gameId |-> "",
   gameStatus |-> NoStatus,
   scoringPlays |-> <<>>,
   gameTracker |-> 0,
   i |-> 0,
   update |-> "",
   real |-> FALSE,
   emitted |-> <<>>,
   startIdx |-> -1,
   fresh |-> FALSE,
   recAtStart |-> FreeTracker,
   prevOk |-> -1,
   prevPeriod |-> "",
   prevTime |-> "",
   prevSeen |-> -1,
   newIdx |-> -1,
   deleted |-> FALSE]

\* A variant without the try/catch: an exception raised inside the call
\* rejects the promise handed to the timer.
SettledUncaught(outcome) == IF outcome = "threw" THEN "rejected" ELSE "resolved"

\* index.js 493, 725-727: the whole body is inside try/catch and the catch
\* only logs, so the promise of a call resolves whatever its outcome.
Settled(outcome) == "resolved"

NoDone == [outcome |-> "none", settled |-> "none", c |-> IdleCycle]

\* No broadcast, no upstream call, no formatting in progress.
IdleBroadcast == [pc |-> "idle"]
IdleApiCall == [pc |-> "idle"]
IdleGoalCall == [pc |-> "idle"]
\* No registry operation, no /test-goal command, no fetchGoals call and no
\* timed poll in progress.
IdleCall == [pc |-> "idle"]

(* ----------------------------- variables ------------------------------ *)

VARIABLES
  schedState,          \* upstream: gameState of the schedule entry
  landState,           \* upstream: gameState of the landing endpoint
  landPeriod,          \* upstream: index into PeriodDescriptors
  plays,               \* upstream: the play-by-play log
  configuredChannels,  \* index.js 25: guild id -> channel id
  activeGames,         \* index.js 27: game id -> tracking record object
  heap,                \* the tracking record objects
  cyc,                 \* the checkForGameUpdates calls in flight
  announced,           \* history: goal broadcasts per scoring index, this run
  gameEnds,            \* history: GAME_END broadcasts per game, this run
  postedBefore,        \* history: scoring indices broadcast by earlier runs
  lastOkLen,           \* history: goals seen by the run's latest completed pass
  lastDone,            \* history: the cycle that ended in the last step
  broadcast,           \* one call of sendGoalToChannels / sendGameUpdateToChannels
  apiCall,             \* one call of a function of nhl-api.js
  goalCall,            \* the formatting of one goal event
  registry,            \* a run of setup / stop operations on the registry
  testGoal,            \* one /test-goal command
  goalsCall,           \* one call of fetchGoals
  pacing,              \* the upstream requests of one poll, on a clock
  legacy               \* the tracker of leafs-updates.js and its polls

vars ==
  << schedState, landState, landPeriod, plays, configuredChannels,
     activeGames, heap, cyc, announced, gameEnds,
     postedBefore, lastOkLen, lastDone, broadcast, apiCall, goalCall,
     registry, testGoal, goalsCall, pacing, legacy >>

\* The poll-cycle model's variables, and those of the function-level models.
botVars ==
  << schedState, landState, landPeriod, plays, configuredChannels,
     activeGames, heap, cyc, announced, gameEnds,
     postedBefore, lastOkLen, lastDone >>
callVars == << registry, testGoal, goalsCall, pacing, legacy >>
unitVars == << broadcast, apiCall, goalCall, callVars >>

upstreamVars == << schedState, landState, landPeriod, plays >>
historyVars == << announced, gameEnds, postedBefore, lastOkLen >>


(* --------------------------- initial state ---------------------------- *)

InitBot ==
  /\ schedState = "LIVE"
  /\ landState = "LIVE"
  /\ landPeriod = 1
  /\ plays = <<>>
  /\ configuredChannels = [g \in Guilds |-> NoChannel]
  /\ activeGames = [g \in Games |-> 0]
  /\ heap = [o \in Oids |-> FreeTracker]
  /\ cyc = [s \in Slots |-> IdleCycle]
  /\ announced = [n \in 0 .. (MaxPlays - 1) |-> 0]
  /\ gameEnds = [g \in Games |-> 0]
  /\ postedBefore = {}
  /\ lastOkLen = [g \in Games |-> -1]
  /\ lastDone = NoDone

\* None of the four is in progress.
NoCalls ==
  /\ registry = IdleCall
  /\ testGoal = IdleCall
  /\ goalsCall = IdleCall
  /\ pacing = IdleCall
  /\ legacy = IdleCall

Init ==
  /\ InitBot
  /\ broadcast = IdleBroadcast
  /\ apiCall = IdleApiCall
  /\ goalCall = IdleGoalCall
  /\ NoCalls

(* ------------------------- scheduling helpers ------------------------- *)

InFlight == {s \in Slots : cyc[s].pc # "idle"}

\* A broadcast that found no destination awaits nothing real: the call
\* continues in microtasks and no other callback can run before it yields.
IsRunning(s) == cyc[s].pc \in {"sendGoal", "sendUpdate"} /\ ~cyc[s].real
Running == \E s \in Slots : IsRunning(s)
CanStep(s) == \A t \in Slots : IsRunning(t) => t = s

HasDestination == \E g \in Guilds : configuredChannels[g] # NoChannel

\* Objects no longer reachable from the map or from a running call vanish.
Collect(h, a, c) ==
  [o \in Oids |->
     IF \/ \E g \in Games : a[g] = o
        \/ \E s \in Slots : c[s].pc # "idle" /\ c[s].gameTracker = o
     THEN h[o] ELSE FreeTracker]

FreeOid(h) ==
  CHOOSE o \in Oids :
    /\ ~h[o].allocated
    /\ \A p \in Oids : ~h[p].allocated => o <= p

\* History counters saturate at MaxCount.
Bump(n) == IF n < MaxCount THEN n + 1 ELSE n

RecordOf(h, a, g) == IF g \in Games /\ a[g] # 0 THEN h[a[g]] ELSE FreeTracker

(* ------------------------------ upstream ------------------------------ *)

ScheduleAdvance ==
  /\ UNCHANGED unitVars
  /\ ~Running
  /\ schedState = "LIVE"
  /\ schedState' = "OFF"
  /\ lastDone' = NoDone
  /\ UNCHANGED << landState, landPeriod, plays, configuredChannels,
                  activeGames, heap, cyc, historyVars >>

LandingAdvance ==
  /\ UNCHANGED unitVars
  /\ ~Running
  /\ landState \in {"LIVE", "FINAL"}
  /\ landState' = (IF landState = "LIVE" THEN "FINAL" ELSE "OFF")
  /\ lastDone' = NoDone
  /\ UNCHANGED << schedState, landPeriod, plays, configuredChannels,
                  activeGames, heap, cyc, historyVars >>

PeriodAdvance ==
  /\ UNCHANGED unitVars
  /\ ~Running
  /\ landPeriod < Len(PeriodDescriptors)
  /\ landPeriod' = landPeriod + 1
  /\ lastDone' = NoDone
  /\ UNCHANGED << schedState, landState, plays, configuredChannels,
                  activeGames, heap, cyc, historyVars >>

AppendPlay(k) ==
  /\ UNCHANGED unitVars
  /\ ~Running
  /\ Len(plays) < MaxPlays
  /\ plays' = Append(plays, k)
  /\ lastDone' = NoDone
  /\ UNCHANGED << schedState, landState, landPeriod, configuredChannels,
                  activeGames, heap, cyc, historyVars >>

\* The league withdraws the latest play (a goal overturned on review).
RetractPlay ==
  /\ UNCHANGED unitVars
  /\ ~Running
  /\ plays # <<>>
  /\ plays' = SubSeq(plays, 1, Len(plays) - 1)
  /\ lastDone' = NoDone
  /\ UNCHANGED << schedState, landState, landPeriod, configuredChannels,
                  activeGames, heap, cyc, historyVars >>

(* ------------------------- destination registry ----------------------- *)

\* /setup-leafs-updates, index.js 225-243
ConfigureChannel(g, ch) ==
  /\ UNCHANGED unitVars
  /\ ~Running
  /\ configuredChannels' = [configuredChannels EXCEPT ![g] = ch]
  /\ lastDone' = NoDone
  /\ UNCHANGED << upstreamVars, activeGames, heap, cyc, historyVars >>

\* /stop-leafs-updates, index.js 246-255: deleting an absent entry changes nothing
RemoveChannel(g) ==
  /\ UNCHANGED unitVars
  /\ ~Running
  /\ configuredChannels' = [configuredChannels EXCEPT ![g] = NoChannel]
  /\ lastDone' = NoDone
  /\ UNCHANGED << upstreamVars, activeGames, heap, cyc, historyVars >>

(* ------------------------------ restart ------------------------------- *)

\* The process stops and starts again: both Collections are module-level
\* values and start empty, and no call of the old process survives.
Restart ==
  /\ UNCHANGED unitVars
  /\ configuredChannels' = [g \in Guilds |-> NoChannel]
  /\ activeGames' = [g \in Games |-> 0]
  /\ heap' = [o \in Oids |-> FreeTracker]
  /\ cyc' = [s \in Slots |-> IdleCycle]
  /\ postedBefore' = postedBefore \cup {n \in DOMAIN announced : announced[n] > 0}
  /\ announced' = [n \in DOMAIN announced |-> 0]
  /\ gameEnds' = [g \in Games |-> 0]
  /\ lastOkLen' = [g \in Games |-> -1]
  /\ lastDone' = NoDone
  /\ UNCHANGED upstreamVars


(* ---------------------------- the poll cycle -------------------------- *)

\* getCurrentLeafsGame, nhl-api.js 93-119, on the one schedule entry: ok is
\* FALSE when fetchJSON yields null.  The result is the game id, "" for null.
GetCurrentLeafsGame(ok) ==
  IF ok /\ (schedState = "LIVE" \/ schedState = "CRIT") THEN "G1" ELSE ""

\* getGameStatus, nhl-api.js 64-72: the landing snapshot.
LandingSnapshot ==
  [gameState |-> landState,
   periodDescriptor |-> PeriodDescriptors[landPeriod],
   homeScore |-> HomeScoreOf(plays),
   awayScore |-> AwayScoreOf(plays),
   timeRemaining |-> ClockOf(landPeriod)]

\* checkForGameUpdates returns or its catch block swallows an exception.
Finish(s, c, outcome, h, a) ==
  /\ cyc' = [cyc EXCEPT ![s] = IdleCycle]
  /\ heap' = Collect(h, a, cyc')
  /\ activeGames' = a
  /\ lastDone' = [outcome |-> outcome, settled |-> Settled(outcome), c |-> c]

\* setInterval fires (index.js 485): a new call starts whatever the earlier
\* calls are doing, and issues the schedule request.
StartCycle ==
  /\ UNCHANGED unitVars
  /\ ~Running
  /\ \E s \in Slots :
       /\ cyc[s].pc = "idle"
       /\ \A t \in Slots : cyc[t].pc = "idle" => s <= t
       /\ cyc' = [cyc EXCEPT ![s] = [IdleCycle EXCEPT !.pc = "getGame"]]
  /\ lastDone' = NoDone
  /\ UNCHANGED << upstreamVars, configuredChannels, activeGames, heap,
                  historyVars >>

\* A tick that finds the previous cycle finished: the normal case, three
\* HTTP requests against an interval of 60 s.
Tick == InFlight = {} /\ StartCycle

\* A tick that fires while an earlier cycle still awaits a fetch or a send.
TickOverlap == InFlight # {} /\ StartCycle

\* index.js 495-516: the schedule answer arrives; the record is created if
\* the game has none; the landing request is issued.
GotGame(s, ok) ==
  /\ UNCHANGED unitVars
  /\ ~Running
  /\ cyc[s].pc = "getGame"
  /\ LET c == cyc[s]
         g == GetCurrentLeafsGame(ok)
     IN IF g = ""
        THEN Finish(s, c, "nogame", heap, activeGames)
        ELSE LET absent == NeedsTracker(activeGames, g)
                 o == FreeOid(heap)
                 a1 == IF absent THEN [activeGames EXCEPT ![g] = o]
                       ELSE activeGames
                 h1 == IF absent THEN [heap EXCEPT ![o] = NewTracker] ELSE heap
                 c1 == [c EXCEPT !.pc = "getStatus",
                                 !.gameId = g,
                                 !.fresh = absent,
                                 !.recAtStart = RecordOf(heap, activeGames, g)]
             IN /\ cyc' = [cyc EXCEPT ![s] = c1]
                /\ activeGames' = a1
                /\ heap' = Collect(h1, a1, cyc')
                /\ lastDone' = NoDone
  /\ UNCHANGED << upstreamVars, configuredChannels, historyVars >>

\* index.js 519-523: the landing answer arrives; null ends the cycle;
\* otherwise the play-by-play request is issued.
GotStatus(s, ok) ==
  /\ UNCHANGED unitVars
  /\ ~Running
  /\ cyc[s].pc = "getStatus"
  /\ LET c == cyc[s]
     IN IF ~ok
        THEN Finish(s, c, "nostatus", heap, activeGames)
        ELSE /\ cyc' = [cyc EXCEPT ![s] = [c EXCEPT !.pc = "getFeed",
                                                    !.gameStatus = LandingSnapshot]]
             /\ lastDone' = NoDone
             /\ UNCHANGED << activeGames, heap >>
  /\ UNCHANGED << upstreamVars, configuredChannels, historyVars >>

\* index.js 683-723, run when the goal loop has ended: the cursor is set,
\* the update is chosen, the record is deleted or refreshed, and the update
\* (if any) is broadcast.
AfterLoop(s, c) ==
  LET n == Len(c.scoringPlays)
      o == c.gameTracker
      g == c.gameId
      t0 == heap[o]
      t1 == [t0 EXCEPT !.lastScoringIdx = NextScoringIdx(@, n),
                       !.seenLen = n]
      h1 == [heap EXCEPT ![o] = t1]
      label == CurrentPeriodOrdinal(c.gameStatus.periodDescriptor)
      update == ChooseUpdate(label, c.gameStatus.gameState, t1.lastPeriod,
                             t1.lastTimeRemaining)
      a1 == IF update = "GAME_END" THEN [activeGames EXCEPT ![g] = 0]
            ELSE activeGames
      h2 == IF a1[g] # 0
            THEN [h1 EXCEPT ![a1[g]] = RefreshTracker(@, c.gameStatus, label)]
            ELSE h1
      c1 == [c EXCEPT !.update = update,
                      !.prevOk = lastOkLen[g],
                      !.prevPeriod = t0.lastPeriod,
                      !.prevTime = t0.lastTimeRemaining,
                      !.prevSeen = t0.seenLen,
                      !.newIdx = t1.lastScoringIdx,
                      !.deleted = (a1[g] = 0)]
  IN /\ gameEnds' = (IF update = "GAME_END"
                     THEN [gameEnds EXCEPT ![g] = Bump(@)] ELSE gameEnds)
     /\ lastOkLen' = [lastOkLen EXCEPT ![g] = n]
     /\ UNCHANGED << announced, postedBefore >>
     /\ IF update = ""
        THEN Finish(s, c1, "ok", h2, a1)
        ELSE /\ cyc' = [cyc EXCEPT ![s] = [c1 EXCEPT !.pc = "sendUpdate",
                                                     !.real = HasDestination]]
             /\ heap' = h2
             /\ activeGames' = a1
             /\ lastDone' = NoDone

\* index.js 566-676, from the loop test on: goal i is extracted, formatted
\* and handed to sendGoalToChannels, or the loop ends.
RunLoop(s, c) ==
  IF c.i < Len(c.scoringPlays)
  THEN IF c.scoringPlays[c.i + 1].details = "invalid"
       THEN /\ Finish(s, c, "threw", heap, activeGames)
            /\ UNCHANGED historyVars
       ELSE /\ announced' = [announced EXCEPT ![c.i] = Bump(@)]
            /\ cyc' = [cyc EXCEPT ![s] = [c EXCEPT !.pc = "sendGoal",
                                                   !.emitted = Append(@, c.i),
                                                   !.real = HasDestination]]
            /\ lastDone' = NoDone
            /\ UNCHANGED << heap, activeGames, gameEnds, postedBefore, lastOkLen >>
  ELSE AfterLoop(s, c)

\* index.js 523-566: the play-by-play answer arrives; null ends the cycle;
\* otherwise the record is read from the map and the goal loop starts.
GotFeed(s, ok) ==
  /\ UNCHANGED unitVars
  /\ ~Running
  /\ cyc[s].pc = "getFeed"
  /\ LET c == cyc[s]
         o == activeGames[c.gameId]
     IN IF ~ok
        THEN /\ Finish(s, c, "nofeed", heap, activeGames)
             /\ UNCHANGED historyVars
        ELSE IF o = 0
        THEN \* gameTracker is undefined: reading lastScoringIdx throws
             /\ Finish(s, c, "threw", heap, activeGames)
             /\ UNCHANGED historyVars
        ELSE RunLoop(s, [c EXCEPT !.scoringPlays = ScoringPlaysOf(plays),
                                  !.gameTracker = o,
                                  !.i = FirstNewIndex(heap[o].lastScoringIdx),
                                  !.startIdx = heap[o].lastScoringIdx])
  /\ UNCHANGED << upstreamVars, configuredChannels >>

\* index.js 675-676: sendGoalToChannels has settled; i++ and the loop test.
SentGoal(s) ==
  /\ UNCHANGED unitVars
  /\ CanStep(s)
  /\ cyc[s].pc = "sendGoal"
  /\ RunLoop(s, [cyc[s] EXCEPT !.i = @ + 1])
  /\ UNCHANGED << upstreamVars, configuredChannels >>

\* index.js 722-723: sendGameUpdateToChannels has settled; the call returns.
SentUpdate(s) ==
  /\ UNCHANGED unitVars
  /\ CanStep(s)
  /\ cyc[s].pc = "sendUpdate"
  /\ Finish(s, cyc[s], "ok", heap, activeGames)
  /\ UNCHANGED << upstreamVars, configuredChannels, historyVars >>

(* --------------------------- specifications --------------------------- *)

CycleStep ==
  \/ \E s \in Slots, ok \in BOOLEAN : GotGame(s, ok)
  \/ \E s \in Slots, ok \in BOOLEAN : GotStatus(s, ok)
  \/ \E s \in Slots, ok \in BOOLEAN : GotFeed(s, ok)
  \/ \E s \in Slots : SentGoal(s)
  \/ \E s \in Slots : SentUpdate(s)

\* Normal operation: a growing log, a game that moves through its periods
\* to its end, channels configured and removed, cycles one after another.
Next ==
  \/ ScheduleAdvance
  \/ LandingAdvance
  \/ PeriodAdvance
  \/ \E k \in PlayKinds : AppendPlay(k)
  \/ \E g \in Guilds, ch \in Channels : ConfigureChannel(g, ch)
  \/ \E g \in Guilds : RemoveChannel(g)
  \/ Tick
  \/ CycleStep

Spec == Init /\ [][Next]_vars

\* A log from which the league may withdraw plays.
NextReview ==
  \/ PeriodAdvance
  \/ \E k \in PlayKinds : AppendPlay(k)
  \/ RetractPlay
  \/ Tick
  \/ CycleStep

SpecReview == Init /\ [][NextReview]_vars

\* A process that may be restarted during the game.
NextRestart ==
  \/ PeriodAdvance
  \/ \E k \in PlayKinds : AppendPlay(k)
  \/ \E g \in Guilds, ch \in Channels : ConfigureChannel(g, ch)
  \/ Restart
  \/ Tick
  \/ CycleStep

SpecRestart == Init /\ [][NextRestart]_vars

\* Ticks that may fire while an earlier cycle is still in flight.
NextOverlap ==
  \/ PeriodAdvance
  \/ AppendPlay(GoalPlay("valid"))
  \/ \E g \in Guilds, ch \in Channels : ConfigureChannel(g, ch)
  \/ Tick
  \/ TickOverlap
  \/ CycleStep

SpecOverlap == Init /\ [][NextOverlap]_vars

\* A log that only grows under a game that stays live.
NextFeed ==
  \/ PeriodAdvance
  \/ \E k \in PlayKinds : AppendPlay(k)
  \/ \E g \in Guilds, ch \in Channels : ConfigureChannel(g, ch)
  \/ Tick
  \/ CycleStep

SpecFeed == Init /\ [][NextFeed]_vars

\* A game that is played to its end while its schedule entry stays live.
NextGame ==
  \/ LandingAdvance
  \/ PeriodAdvance
  \/ \E k \in PlayKinds : AppendPlay(k)
  \/ \E g \in Guilds, ch \in Channels : ConfigureChannel(g, ch)
  \/ Tick
  \/ CycleStep

SpecGame == Init /\ [][NextGame]_vars

(* --------------------------- the dispatcher --------------------------- *)

\* sendGoalToChannels (index.js 734-749) and sendGameUpdateToChannels
\* (755-771) are the same loop over configuredChannels.entries(): look the
\* guild and the channel up in the client's caches, skip the entry if either
\* is missing, await channel.send inside a try/catch per entry.  The loop is
\* modelled on a registry of up to MaxDestinations guilds; while a send is
\* awaited a slash command may set or delete an entry, and the Map iterator
\* is live.

GuildIds == 1 .. MaxDestinations
ChannelIds == {"c1", "c2"}

\* The entries of a Map in insertion order, one per guild.
Registries ==
  {r \in UNION {[1 .. n -> [guildId : GuildIds, channelId : ChannelIds]] :
                  n \in 0 .. MaxDestinations} :
     \A i, j \in DOMAIN r : i # j => r[i].guildId # r[j].guildId}

\* The states a broadcast may start in: a registry, and the guilds and
\* channels the client's caches still hold.
StartBroadcasts ==
  [pc : {"start"},
   entries : Registries,
   guildCache : SUBSET GuildIds,
   channelCache : SUBSET ChannelIds,
   pos : {0},
   sending : {0},
   attempted : {{}},
   delivered : {{}},
   failed : {{}},
   touched : {{}},
   raised : {FALSE}]

\* index.js 737-741: both lookups succeed.
Deliverable(b, e) == e.guildId \in b.guildCache /\ e.channelId \in b.channelCache

RECURSIVE NextDeliverable(_, _)
\* The first entry at or after position k that is not skipped by a
\* `continue`, 0 if the iterator runs out.
NextDeliverable(b, k) ==
  IF k > Len(b.entries) THEN 0
  ELSE IF Deliverable(b, b.entries[k]) THEN k
  ELSE NextDeliverable(b, k + 1)

\* The loop runs on from the entry after position from, up to the next
\* channel.send or to its end.
Advance(b, from) ==
  LET k == NextDeliverable(b, from + 1)
  IN IF k = 0
     THEN [b EXCEPT !.pc = "done", !.pos = Len(b.entries), !.sending = 0]
     ELSE [b EXCEPT !.pc = "send", !.pos = k,
                    !.sending = b.entries[k].guildId,
                    !.attempted = @ \cup {b.entries[k].guildId}]

\* A variant without the per-entry try/catch.
OnSendErrorPropagate == "raise"

\* index.js 745-747, 767-769: a rejected send is logged and the loop goes on.
OnSendError == "continue"

BroadcastStart ==
  /\ broadcast.pc = "start"
  /\ broadcast' = Advance(broadcast, 0)
  /\ UNCHANGED << botVars, apiCall, goalCall, callVars >>

\* index.js 743, 766: the awaited channel.send resolves or rejects.
SendSettles(ok) ==
  /\ broadcast.pc = "send"
  /\ LET g == broadcast.sending
     IN IF ok
        THEN broadcast' = Advance([broadcast EXCEPT !.delivered = @ \cup {g}],
                                  broadcast.pos)
        ELSE IF OnSendError = "continue"
        THEN broadcast' = Advance([broadcast EXCEPT !.failed = @ \cup {g}],
                                  broadcast.pos)
        ELSE broadcast' = [broadcast EXCEPT !.pc = "done", !.sending = 0,
                                            !.failed = @ \cup {g},
                                            !.raised = TRUE]
  /\ UNCHANGED << botVars, apiCall, goalCall, callVars >>

\* /setup-leafs-updates during an awaited send (index.js 237): Map.set keeps
\* the place of an existing key and appends a new one.
RegistrySet(g, ch) ==
  /\ broadcast.pc = "send"
  /\ LET es == broadcast.entries
         at == {i \in DOMAIN es : es[i].guildId = g}
     IN broadcast' =
          [broadcast EXCEPT
             !.entries = IF at = {}
                         THEN Append(es, [guildId |-> g, channelId |-> ch])
                         ELSE [i \in DOMAIN es |->
                                 IF i \in at THEN [es[i] EXCEPT !.channelId = ch]
                                 ELSE es[i]],
             !.touched = @ \cup {g}]
  /\ UNCHANGED << botVars, apiCall, goalCall, callVars >>

\* /stop-leafs-updates during an awaited send (index.js 247): the entry
\* leaves the Map and the live iterator keeps its place.
RegistryDelete(g) ==
  /\ broadcast.pc = "send"
  /\ \E i \in DOMAIN broadcast.entries :
       /\ broadcast.entries[i].guildId = g
       /\ broadcast' =
            [broadcast EXCEPT
               !.entries = SubSeq(@, 1, i - 1) \o SubSeq(@, i + 1, Len(@)),
               !.pos = IF i <= @ THEN @ - 1 ELSE @,
               !.touched = @ \cup {g}]
  /\ UNCHANGED << botVars, apiCall, goalCall, callVars >>

InitDispatch ==
  /\ InitBot
  /\ NoCalls
  /\ broadcast \in StartBroadcasts
  /\ apiCall = IdleApiCall
  /\ goalCall = IdleGoalCall

NextDispatch ==
  \/ BroadcastStart
  \/ \E ok \in BOOLEAN : SendSettles(ok)
  \/ \E g \in GuildIds, ch \in ChannelIds : RegistrySet(g, ch)
  \/ \E g \in GuildIds : RegistryDelete(g)

SpecDispatch == InitDispatch /\ [][NextDispatch]_vars

(* ------------------------- the upstream client ------------------------ *)

\* One call of an exported function of nhl-api.js against one HTTP exchange.
\* Times are whole hours.

ApiFunctions ==
  {"getCurrentLeafsGame", "getNextLeafsGame", "getGameStatus", "getGameFeed"}

\* What the exchange does inside fetchJSON: fetch rejects, the status is not
\* OK, res.json() rejects on an unparsable body, or a body is parsed.
ResponseKinds == {"transportError", "notOK", "badJSON", "json"}

Hours == 0 .. MaxHour

\* nhl-api.js 109: the assumed maximum length of a game, in hours.
WindowHours == 4

\* The elements of data.games: schedule entries, and a JSON null (an element
\* that is no object, on which game.startTimeUTC raises a TypeError).
NullEntry == [kind |-> "null", start |-> 0, gameState |-> ""]
ScheduleEntries ==
  [kind : {"game"}, start : Hours, gameState : {"LIVE", "CRIT", "OFF"}]
    \cup {NullEntry}

Schedules == UNION {[1 .. n -> ScheduleEntries] : n \in 0 .. MaxGames}

\* What a function hands to its caller: null, a value (for the schedule
\* functions the entry at index), or an exception.
Null == [tag |-> "null", index |-> 0]
Value(i) == [tag |-> "value", index |-> i]
Raise == [tag |-> "raise", index |-> 0]

\* fetchJSON, nhl-api.js 17-30: null on a rejected fetch, a non-OK status or
\* an unparsable body, the parsed body otherwise.
FetchJSON(response) == IF response = "json" THEN Value(0) ELSE Null

\* A variant that closes the window one comparison early.
IsCurrentStrict(game, now) ==
  /\ game.start <= now
  /\ now < game.start + WindowHours
  /\ (game.gameState = "LIVE" \/ game.gameState = "CRIT")

\* nhl-api.js 108-111: the test of one schedule entry.
IsCurrent(game, now) ==
  /\ game.start <= now
  /\ now <= game.start + WindowHours
  /\ (game.gameState = "LIVE" \/ game.gameState = "CRIT")

\* nhl-api.js 50: the test of one schedule entry.
IsUpcoming(game, now) == game.start > now

RECURSIVE Find(_, _, _, _)
\* data.games.find(...) from element k on: the first element that passes
\* the test of function fn, null (undefined || null) if none does; the test
\* raises on an element that is no object.
Find(fn, games, now, k) ==
  IF k > Len(games) THEN Null
  ELSE IF games[k].kind = "null" THEN Raise
  ELSE IF (IF fn = "getCurrentLeafsGame" THEN IsCurrent(games[k], now)
           ELSE IsUpcoming(games[k], now))
  THEN Value(k)
  ELSE Find(fn, games, now, k + 1)

\* A variant whose catch block throws the exception on.
CaughtRethrow(r) == r

\* nhl-api.js 53-56, 68-71, 115-118, 129-132: the catch of each function.
Caught(r) == IF r.tag = "raise" THEN Null ELSE r

\* The body of a function once fetchJSON has given data.
ApiBody(c) ==
  IF c.fn \in {"getGameStatus", "getGameFeed"} THEN c.data
  ELSE IF c.data.tag = "null" THEN Null
  ELSE IF ~c.hasGames \/ Len(c.games) = 0 THEN Null
  ELSE Find(c.fn, c.games, c.now, 1)

\* The calls and exchanges considered.
StartApiCalls ==
  [pc : {"fetch"},
   fn : ApiFunctions,
   response : ResponseKinds,
   hasGames : BOOLEAN,
   games : Schedules,
   now : Hours,
   data : {Null},
   result : {Null}]

\* The awaited fetchJSON settles.
FetchSettles ==
  /\ apiCall.pc = "fetch"
  /\ apiCall' = [apiCall EXCEPT !.pc = "fetched",
                                !.data = FetchJSON(apiCall.response)]
  /\ UNCHANGED << botVars, broadcast, goalCall, callVars >>

\* The function runs to its return.
ApiReturns ==
  /\ apiCall.pc = "fetched"
  /\ apiCall' = [apiCall EXCEPT !.pc = "done",
                                !.result = Caught(ApiBody(apiCall))]
  /\ UNCHANGED << botVars, broadcast, goalCall, callVars >>

\* The inputs that matter to a function: the body of a failed exchange and
\* the schedule of a gamecenter call are not looked at.
InitApi ==
  /\ InitBot
  /\ NoCalls
  /\ broadcast = IdleBroadcast
  /\ goalCall = IdleGoalCall
  /\ apiCall \in StartApiCalls
  /\ (apiCall.response # "json"
        \/ apiCall.fn \in {"getGameStatus", "getGameFeed"})
       => (apiCall.games = << >> /\ ~apiCall.hasGames /\ apiCall.now = 0)
  /\ ~apiCall.hasGames => apiCall.games = << >>

NextApi ==
  \/ FetchSettles
  \/ ApiReturns

SpecApi == InitApi /\ [][NextApi]_vars

(* -------------------------- goal formatting --------------------------- *)

\* The body of the goal loop for one goalEvent (index.js 576-672) and
\* createGoalEmbed (826-906).  A JavaScript string is a sequence of tokens:
\* a token is a blank " " or a run of other characters, so that trim,
\* template literals, join and toUpperCase are computed, not assumed.

\* The value undefined, and a truthy value that is no string (a number).
Undefined == << "undefined" >>
NonString == << "number" >>

\* typeof v === 'string'
IsString(v) == v # Undefined /\ v # NonString

\* The truthiness of a value: undefined and '' are falsy.
Truthy(v) == v # Undefined /\ v # << >>

\* a || d
OrElse(v, d) == IF Truthy(v) THEN v ELSE d

RECURSIVE TrimStart(_)
TrimStart(str) ==
  IF str # << >> /\ Head(str) = " " THEN TrimStart(Tail(str)) ELSE str

RECURSIVE TrimEnd(_)
TrimEnd(str) ==
  IF str # << >> /\ str[Len(str)] = " "
  THEN TrimEnd(SubSeq(str, 1, Len(str) - 1)) ELSE str

\* String.prototype.trim
Trim(str) == TrimEnd(TrimStart(str))

\* String.prototype.toUpperCase on the tokens that occur.
ToUpperCase(str) ==
  [i \in DOMAIN str |->
     CASE str[i] = "pp" -> "PP"
       [] str[i] = "sh" -> "SH"
       [] str[i] = "ev" -> "EV"
       [] OTHER -> str[i]]

\* `${a} ${b}`
Spaced(a, b) == a \o << " " >> \o b

\* A player object of the feed: names ({default: ...}) and sweater number,
\* 0 for none.
NoPlayer == [firstName |-> Undefined, lastName |-> Undefined, sweaterNumber |-> 0]
ScoringPlayers ==
  {NoPlayer,
   [firstName |-> << " " >>, lastName |-> Undefined, sweaterNumber |-> 34],
   [firstName |-> Undefined, lastName |-> << "Matthews" >>, sweaterNumber |-> 0],
   [firstName |-> << "Auston" >>, lastName |-> << "Matthews" >>,
    sweaterNumber |-> 34]}
AssistPlayers ==
  {NoPlayer,
   [firstName |-> << "Mitch" >>, lastName |-> << "Marner" >>,
    sweaterNumber |-> 16]}

\* periodDescriptor objects; number 0 and periodType "" stand for absent.
NoDescriptor == [number |-> 0, periodType |-> ""]
GameDescriptors ==
  {[number |-> 1, periodType |-> "REG"], [number |-> 3, periodType |-> "REG"],
   [number |-> 4, periodType |-> "OT"], [number |-> 5, periodType |-> "SO"]}
GoalDescriptors ==
  {NoDescriptor,
   [number |-> 2, periodType |-> "REG"], [number |-> 4, periodType |-> "OT"],
   [number |-> 5, periodType |-> "OT"], [number |-> 5, periodType |-> "SO"]}

\* situationCode strings, one token per character; << >> is an absent code.
SituationCodes ==
  {<< >>, << "1", "5", "5", "1" >>, << "0", "6", "5", "1" >>,
   << "1", "1", "5", "1" >>}

HomeAbbrev == "TOR"
AwayAbbrev == "MTL"

\* The goal events considered, each with the game it belongs to.
GoalEvents ==
  [scoringPlayer : ScoringPlayers,
   assists : UNION {[1 .. n -> AssistPlayers] : n \in 0 .. MaxAssists},
   strength : {Undefined, << " " >>, << "pp" >>, NonString},
   shotType : {Undefined, << " " >>, << "wrist" >>, << "penalty-shot" >>},
   goalModifier : {Undefined, << "empty-net" >>},
   situationCode : SituationCodes,
   eventOwnerTeamId : {HomeAbbrev, AwayAbbrev},
   periodDescriptor : GoalDescriptors,
   timeInPeriod : {Undefined, << " " >>, << "05:23" >>},
   gamePeriodDescriptor : GameDescriptors]

\* index.js 579, 589: the trimmed full name of a player.
PlayerName(pl) ==
  Trim(Spaced(OrElse(pl.firstName, << >>), OrElse(pl.lastName, << >>)))

\* index.js 580, 590: the sweater number as '#n', '' if none.
PlayerNumber(pl) ==
  IF pl.sweaterNumber # 0 THEN << "#" \o ToString(pl.sweaterNumber) >> ELSE << >>

\* index.js 581-583
ScorerOf(pl) ==
  IF PlayerName(pl) # << >>
  THEN Trim(Spaced(PlayerName(pl), PlayerNumber(pl)))
  ELSE << "Unknown" >>

\* index.js 588-591: the callback of assistPlayers.map
AssistName(pl) ==
  IF PlayerName(pl) # << >>
  THEN Trim(Spaced(PlayerName(pl), PlayerNumber(pl)))
  ELSE << >>

RECURSIVE FilterTruthy(_)
\* index.js 592: .filter(a => a)
FilterTruthy(names) ==
  IF names = << >> THEN << >>
  ELSE IF Head(names) = << >> THEN FilterTruthy(Tail(names))
  ELSE << Head(names) >> \o FilterTruthy(Tail(names))

RECURSIVE Join(_)
\* index.js 592: .join(', ')
Join(names) ==
  IF names = << >> THEN << >>
  ELSE IF Len(names) = 1 THEN Head(names)
  ELSE Head(names) \o << ", " >> \o Join(Tail(names))

\* index.js 586-593
AssistsOf(assistPlayers) ==
  IF Len(assistPlayers) > 0
  THEN Join(FilterTruthy([i \in DOMAIN assistPlayers |->
                            AssistName(assistPlayers[i])]))
  ELSE << "Unassisted" >>

\* String.prototype.charAt: '' past the end.
CharAt(str, i) == IF i + 1 <= Len(str) THEN str[i + 1] ELSE ""

\* The order of one-character strings under <, '' first.
CharRank(ch) ==
  CASE ch = "" -> 0
    [] ch = "0" -> 1
    [] ch = "1" -> 2
    [] ch = "5" -> 6
    [] ch = "6" -> 7
    [] OTHER -> 8

\* A variant that takes every goal for the away side's.
SituationStrengthAwayOnly(situationCode, isHomeTeam) ==
  LET awayCode == CharAt(situationCode, 0)
      homeCode == CharAt(situationCode, 1)
  IN IF awayCode # homeCode
     THEN IF CharRank(awayCode) < CharRank(homeCode) THEN << "PP" >>
          ELSE << "SH" >>
     ELSE << "EV" >>

\* index.js 611-630: the strength read off the situation code.
SituationStrength(situationCode, isHomeTeam) ==
  IF situationCode = << >> THEN << "EV" >>
  ELSE LET awayCode == CharAt(situationCode, 0)
           homeCode == CharAt(situationCode, 1)
       IN IF awayCode # homeCode
          THEN IF isHomeTeam
               THEN IF CharRank(homeCode) < CharRank(awayCode) THEN << "PP" >>
                    ELSE << "SH" >>
               ELSE IF CharRank(awayCode) < CharRank(homeCode) THEN << "PP" >>
                    ELSE << "SH" >>
          ELSE << "EV" >>

\* The result of an expression that raises a TypeError.
TypeError == << "TypeError" >>

\* A variant that looks at the penalty-shot and empty-net tags first.
StrengthTagLast(e) ==
  IF e.shotType = << "penalty-shot" >> THEN << "PS" >>
  ELSE IF e.goalModifier = << "empty-net" >> THEN << "EN" >>
  ELSE IF Truthy(e.strength)
  THEN IF IsString(e.strength) THEN ToUpperCase(e.strength) ELSE TypeError
  ELSE SituationStrength(e.situationCode, e.eventOwnerTeamId = HomeAbbrev)

\* index.js 596-630: toUpperCase is no method of a non-string.
Strength(e) ==
  IF Truthy(e.strength)
  THEN IF IsString(e.strength) THEN ToUpperCase(e.strength) ELSE TypeError
  ELSE IF e.shotType = << "penalty-shot" >> THEN << "PS" >>
  ELSE IF e.goalModifier = << "empty-net" >> THEN << "EN" >>
  ELSE SituationStrength(e.situationCode, e.eventOwnerTeamId = HomeAbbrev)

\* A variant without the overtime and shootout labels.
GoalPeriodNumbered(periodDesc, currentPeriod) ==
  "P" \o ToString(IF periodDesc.number # 0 THEN periodDesc.number
                  ELSE currentPeriod)

\* index.js 633-641
GoalPeriod(periodDesc, currentPeriod) ==
  IF periodDesc.periodType = "OT" THEN "OT"
  ELSE IF periodDesc.periodType = "SO" THEN "SO"
  ELSE "P" \o ToString(IF periodDesc.number # 0 THEN periodDesc.number
                       ELSE currentPeriod)

\* index.js 659-672: the object handed to createGoalEmbed.  The scores, team
\* names and logos do not depend on the optional fields of the event and are
\* left out.
GoalData(e) ==
  [scorer |-> ScorerOf(e.scoringPlayer),
   assists |-> AssistsOf(e.assists),
   strength |-> Strength(e),
   period |-> << GoalPeriod(e.periodDescriptor, e.gamePeriodDescriptor.number) >>,
   timeInPeriod |-> OrElse(e.timeInPeriod, << "TBD" >>),
   shotType |-> OrElse(e.shotType, << >>)]

\* A variant that tests for the empty string only.
FieldOrDefaultNoTrim(v, d) == IF IsString(v) /\ v # << >> THEN v ELSE d

\* index.js 857, 864, 869-871: typeof v === 'string' && v.trim() ? v : d
FieldOrDefault(v, d) == IF IsString(v) /\ Trim(v) # << >> THEN v ELSE d

\* index.js 852-892: the fields of the embed.
EmbedFields(d) ==
  << [name |-> "Scorer", value |-> FieldOrDefault(d.scorer, << "Unknown" >>)],
     [name |-> "Assists", value |-> FieldOrDefault(d.assists, << "Unassisted" >>)],
     [name |-> "Strength", value |-> FieldOrDefault(d.strength, << "EV" >>)],
     [name |-> "Time",
      value |-> Spaced(FieldOrDefault(d.period, << "TBD" >>),
                       FieldOrDefault(d.timeInPeriod, << "TBD" >>))] >>
    \o (IF Truthy(d.shotType) /\ IsString(d.shotType) /\ Trim(d.shotType) # << >>
        THEN << [name |-> "Shot Type", value |-> d.shotType] >>
        ELSE << >>)

\* The event with its owner changed to the other side.
OtherSide(e) ==
  [e EXCEPT !.eventOwnerTeamId = IF @ = HomeAbbrev THEN AwayAbbrev ELSE HomeAbbrev]

\* index.js 576-672: the goal's details are extracted; the strength step
\* may raise.  gameLabel is the currentPeriodOrdinal of the cycle (540-548);
\* otherStrength is a history field: the strength the same event gets when
\* the other side scored it.
ExtractGoal ==
  /\ goalCall.pc = "event"
  /\ LET e == goalCall.goalEvent
     IN IF Strength(e) = TypeError
        THEN goalCall' = [goalCall EXCEPT !.pc = "threw"]
        ELSE goalCall' =
               [goalCall EXCEPT
                  !.pc = "data",
                  !.goalData = GoalData(e),
                  !.gameLabel = CurrentPeriodOrdinal(e.gamePeriodDescriptor),
                  !.otherStrength = Strength(OtherSide(e))]
  /\ UNCHANGED << botVars, broadcast, apiCall, callVars >>

\* index.js 826-906
CreateGoalEmbed ==
  /\ goalCall.pc = "data"
  /\ goalCall' = [goalCall EXCEPT !.pc = "embed",
                                  !.fields = EmbedFields(goalCall.goalData)]
  /\ UNCHANGED << botVars, broadcast, apiCall, callVars >>

InitFormat ==
  /\ InitBot
  /\ NoCalls
  /\ broadcast = IdleBroadcast
  /\ apiCall = IdleApiCall
  /\ goalCall \in [pc : {"event"},
                    goalEvent : GoalEvents,
                    goalData : {[scorer |-> << >>, assists |-> << >>,
                                 strength |-> << >>, period |-> << >>,
                                 timeInPeriod |-> << >>, shotType |-> << >>]},
                    gameLabel : {""},
                    otherStrength : {<< >>},
                    fields : {<< >>}]

NextFormat ==
  \/ ExtractGoal
  \/ CreateGoalEmbed

SpecFormat == InitFormat /\ [][NextFormat]_vars

(* ----------------------- registry operations -------------------------- *)

\* A run of up to MaxOps operations on the two registries of the repository:
\* the Map of index.js 25, written by /setup-leafs-updates and
\* /stop-leafs-updates, and the object of leafs-updates.js 12, written by
\* configureChannel and removeChannelConfig.  Each handler runs to its reply
\* without an await in between, so an operation is one step.

MaxOps == 3

\* Map.prototype.set: the value of an existing key is replaced in place, a
\* new key is appended.
MapSetAppend(es, g, ch) == Append(es, [guildId |-> g, channelId |-> ch])

MapSet(es, g, ch) ==
  IF \E i \in DOMAIN es : es[i].guildId = g
  THEN [i \in DOMAIN es |->
          IF es[i].guildId = g THEN [es[i] EXCEPT !.channelId = ch] ELSE es[i]]
  ELSE Append(es, [guildId |-> g, channelId |-> ch])

\* Map.prototype.has
MapHas(es, g) == \E i \in DOMAIN es : es[i].guildId = g

\* Map.prototype.get, with NoChannel for undefined
MapGet(es, g) ==
  IF MapHas(es, g)
  THEN es[CHOOSE i \in DOMAIN es : es[i].guildId = g].channelId
  ELSE NoChannel

\* Map.prototype.delete: the entry leaves the Map; the value is whether
\* there was one.
MapDelete(es, g) ==
  IF MapHas(es, g)
  THEN LET i == CHOOSE j \in DOMAIN es : es[j].guildId = g
       IN [entries |-> SubSeq(es, 1, i - 1) \o SubSeq(es, i + 1, Len(es)),
           removed |-> TRUE]
  ELSE [entries |-> es, removed |-> FALSE]

\* leafs-updates.js 12: an object without properties.
EmptyObject == [g \in GuildIds |-> NoChannel]

\* leafs-updates.js 21-24
configureChannel(obj, guildId, channelId) ==
  [object |-> [obj EXCEPT ![guildId] = channelId], returned |-> TRUE]

\* leafs-updates.js 31-33: channel ids are non-empty strings, hence truthy.
getConfiguredChannel(obj, guildId) == obj[guildId]

\* leafs-updates.js 39-45
removeChannelConfig(obj, guildId) ==
  IF obj[guildId] # NoChannel
  THEN [object |-> [obj EXCEPT ![guildId] = NoChannel], returned |-> TRUE]
  ELSE [object |-> obj, returned |-> FALSE]

StartRegistry ==
  [pc |-> "ready",
   channels |-> << >>,
   object |-> EmptyObject,
   log |-> << >>,
   reply |-> "",
   returned |-> FALSE]

Logged(r, op, g, ch, text) ==
  Append(r.log, [op |-> op, guildId |-> g, channelId |-> ch, text |-> text])

\* index.js 225-243: a channel that is not text-based is turned down before
\* the Map is written.
SetupLeafsUpdates(g, ch, text) ==
  /\ registry.pc = "ready"
  /\ Len(registry.log) < MaxOps
  /\ registry' =
       [registry EXCEPT
          !.channels = IF text THEN MapSet(@, g, ch) ELSE @,
          !.reply = IF text THEN "configured" ELSE "notTextChannel",
          !.log = Logged(registry, "setup", g, ch, text)]
  /\ UNCHANGED << botVars, broadcast, apiCall, goalCall,
                  testGoal, goalsCall, pacing, legacy >>

\* index.js 246-255
StopLeafsUpdates(g) ==
  /\ registry.pc = "ready"
  /\ Len(registry.log) < MaxOps
  /\ LET d == MapDelete(registry.channels, g)
     IN registry' =
          [registry EXCEPT
             !.channels = d.entries,
             !.reply = IF d.removed THEN "stopped" ELSE "notConfigured",
             !.log = Logged(registry, "stop", g, NoChannel, TRUE)]
  /\ UNCHANGED << botVars, broadcast, apiCall, goalCall,
                  testGoal, goalsCall, pacing, legacy >>

\* A call of configureChannel, leafs-updates.js 21-24
ConfigureChannelCall(g, ch) ==
  /\ registry.pc = "ready"
  /\ Len(registry.log) < MaxOps
  /\ LET r == configureChannel(registry.object, g, ch)
     IN registry' =
          [registry EXCEPT
             !.object = r.object,
             !.returned = r.returned,
             !.log = Logged(registry, "configureChannel", g, ch, TRUE)]
  /\ UNCHANGED << botVars, broadcast, apiCall, goalCall,
                  testGoal, goalsCall, pacing, legacy >>

\* A call of removeChannelConfig, leafs-updates.js 39-45
RemoveChannelConfigCall(g) ==
  /\ registry.pc = "ready"
  /\ Len(registry.log) < MaxOps
  /\ LET r == removeChannelConfig(registry.object, g)
     IN registry' =
          [registry EXCEPT
             !.object = r.object,
             !.returned = r.returned,
             !.log = Logged(registry, "removeChannelConfig", g, NoChannel, TRUE)]
  /\ UNCHANGED << botVars, broadcast, apiCall, goalCall,
                  testGoal, goalsCall, pacing, legacy >>

InitRegistry ==
  /\ InitBot
  /\ broadcast = IdleBroadcast
  /\ apiCall = IdleApiCall
  /\ goalCall = IdleGoalCall
  /\ registry = StartRegistry
  /\ testGoal = IdleCall
  /\ goalsCall = IdleCall
  /\ pacing = IdleCall
  /\ legacy = IdleCall

NextRegistry ==
  \/ \E g \in GuildIds, ch \in ChannelIds, text \in BOOLEAN :
       SetupLeafsUpdates(g, ch, text)
  \/ \E g \in GuildIds : StopLeafsUpdates(g)
  \/ \E g \in GuildIds, ch \in ChannelIds : ConfigureChannelCall(g, ch)
  \/ \E g \in GuildIds : RemoveChannelConfigCall(g)

SpecRegistry == InitRegistry /\ [][NextRegistry]_vars

(* ------------------------- the /test-goal command --------------------- *)

\* One /test-goal interaction (index.js 345-421) in a guild, against a
\* registry and a tracking store, and the payload the test helper
\* createSimulatedGoalPayload (tests/testGoal.test.js 15-44) builds from the
\* same options.  The registry is the entries of the broadcast record, which
\* sendGoalToChannels loops over.  Option strings are sequences of words as
\* in the goal formatting; an option that was not given is Undefined (Discord
\* delivers no empty string and no period outside 1 .. 5, index.js 66-71).

LastPeriodOption == 5

\* An integer option that was not given: getInteger gives null, the helper
\* finds the property undefined.
NoInteger == [given |-> FALSE, value |-> 0]

TestGoalOptions ==
  [team : {Undefined, << "TOR" >>, << "BOS" >>, << "OPP" >>},
   scorer : {Undefined, << "John", "Tavares" >>},
   period : {NoInteger} \cup [given : {TRUE}, value : 1 .. LastPeriodOption],
   time : {Undefined, << "5:23" >>},
   strength : {Undefined, << "PP" >>},
   force : {Undefined, << "true" >>, << "false" >>}]

\* A variant that takes every environment for a development one.
IsDevAlways(nodeEnv) == TRUE

\* index.js 347
IsDev(nodeEnv) == nodeEnv # "production"

\* A variant that never takes the scoring team for Toronto.
IsTorontoNever(team) == FALSE

\* index.js 377, testGoal.test.js 25
IsToronto(team) == team = << "TOR" >>

\* A variant that starts overtime one period early.
PeriodTextFromThree(period) ==
  IF period >= 3 THEN "OT" ELSE "P" \o ToString(period)

\* index.js 384: period > 3 ? 'OT' : `P${period}`
PeriodText(period) == IF period > 3 THEN "OT" ELSE "P" \o ToString(period)

\* index.js 370-396: the options with their `||` defaults and the object
\* handed to createGoalEmbed.
TestGoalPayload(o) ==
  LET team == OrElse(o.team, << "TOR" >>)
      scorer == OrElse(o.scorer, << "Auston", "Matthews" >>)
      period == IF ~o.period.given \/ o.period.value = 0 THEN 1
                ELSE o.period.value
      time == OrElse(o.time, << "10:00" >>)
      strength == OrElse(o.strength, << "EV" >>)
      isToronto == IsToronto(team)
      home == IF isToronto THEN << "TOR" >> ELSE << "OPP" >>
      away == IF isToronto THEN << "OPP" >> ELSE team
  IN [scorer |-> Spaced(scorer, << "#34" >>),
      assists |-> << "William", " ", "Nylander", " ", "#88,", " ",
                     "Mitchell", " ", "Marner", " ", "#16" >>,
      strength |-> strength,
      period |-> << PeriodText(period) >>,
      timeInPeriod |-> time,
      homeScore |-> IF isToronto THEN 2 ELSE 1,
      awayScore |-> IF isToronto THEN 1 ELSE 2,
      homeTeam |-> home,
      awayTeam |-> away,
      teamAbbrev |-> team,
      shotType |-> << "wrist" >>,
      logos |-> [homeTeamLogo |-> home \o << "_light.svg" >>,
                 awayTeamLogo |-> away \o << "_light.svg" >>]]

\* testGoal.test.js 16-22: a destructuring default applies to undefined only.
Defaulted(v, d) == IF v = Undefined THEN d ELSE v

\* testGoal.test.js 15-44
createSimulatedGoalPayload(o) ==
  LET team == Defaulted(o.team, << "TOR" >>)
      scorer == Defaulted(o.scorer, << "Auston", "Matthews" >>)
      period == IF ~o.period.given THEN 1 ELSE o.period.value
      time == Defaulted(o.time, << "10:00" >>)
      strength == Defaulted(o.strength, << "EV" >>)
      isToronto == team = << "TOR" >>
      home == IF isToronto THEN << "TOR" >> ELSE << "OPP" >>
      away == IF isToronto THEN << "OPP" >> ELSE team
  IN [scorer |-> Spaced(scorer, << "#34" >>),
      assists |-> << "William", " ", "Nylander", " ", "#88,", " ",
                     "Mitchell", " ", "Marner", " ", "#16" >>,
      strength |-> strength,
      period |-> << IF period > 3 THEN "OT" ELSE "P" \o ToString(period) >>,
      timeInPeriod |-> time,
      homeScore |-> IF isToronto THEN 2 ELSE 1,
      awayScore |-> IF isToronto THEN 1 ELSE 2,
      homeTeam |-> home,
      awayTeam |-> away,
      teamAbbrev |-> team,
      shotType |-> << "wrist" >>,
      logos |-> [homeTeamLogo |-> home \o << "_light.svg" >>,
                 awayTeamLogo |-> away \o << "_light.svg" >>]]

\* The interactions considered.  before is a history field: the registry
\* and the tracking store as the command found them.
StartTestGoals ==
  [pc : {"invoked"},
   nodeEnv : {"production", "development", "undefined"},
   guildId : GuildIds,
   options : TestGoalOptions,
   payload : {<< >>},
   helperPayload : {<< >>},
   fields : {<< >>},
   reply : {""},
   before : {<< >>}]

\* index.js 345-366: the two gates, then the awaited deferReply.
TestGoalCommand ==
  /\ testGoal.pc = "invoked"
  /\ LET isDev == IsDev(testGoal.nodeEnv)
         force == OrElse(testGoal.options.force, << "false" >>) = << "true" >>
         channelId == MapGet(broadcast.entries, testGoal.guildId)
         seen == [testGoal EXCEPT
                    !.before = [entries |-> broadcast.entries,
                                activeGames |-> activeGames,
                                heap |-> heap]]
     IN IF ~isDev /\ ~force
        THEN testGoal' = [seen EXCEPT !.pc = "refused", !.reply = "devOnly"]
        ELSE IF channelId = NoChannel
        THEN testGoal' = [seen EXCEPT !.pc = "refused", !.reply = "noChannel"]
        ELSE testGoal' = [seen EXCEPT !.pc = "deferring"]
  /\ UNCHANGED << botVars, broadcast, apiCall, goalCall,
                  registry, goalsCall, pacing, legacy >>

\* index.js 366-399: deferReply settles; a rejection leaves the handler
\* through the catch at 430-447, otherwise the embed is built and
\* sendGoalToChannels starts.
TestGoalDeferred(ok) ==
  /\ testGoal.pc = "deferring"
  /\ IF ok
     THEN /\ testGoal' =
               [testGoal EXCEPT
                  !.pc = "sending",
                  !.payload = TestGoalPayload(testGoal.options),
                  !.helperPayload = createSimulatedGoalPayload(testGoal.options),
                  !.fields = EmbedFields(TestGoalPayload(testGoal.options))]
          /\ broadcast' = [broadcast EXCEPT !.pc = "start"]
     ELSE /\ testGoal' = [testGoal EXCEPT !.pc = "failed", !.reply = "sorry"]
          /\ UNCHANGED broadcast
  /\ UNCHANGED << botVars, apiCall, goalCall, registry, goalsCall, pacing, legacy >>

\* index.js 399-414: sendGoalToChannels has returned.
TestGoalReplies ==
  /\ testGoal.pc = "sending"
  /\ broadcast.pc = "done"
  /\ testGoal' = [testGoal EXCEPT !.pc = "replied", !.reply = "sent"]
  /\ UNCHANGED << botVars, broadcast, apiCall, goalCall,
                  registry, goalsCall, pacing, legacy >>

\* A command arrives while no broadcast runs; the store is empty or tracks
\* a game; every guild and channel of the registry can be reached.
InitTestGoal ==
  /\ schedState = "LIVE"
  /\ landState = "LIVE"
  /\ landPeriod = 1
  /\ plays = <<>>
  /\ configuredChannels = [g \in Guilds |-> NoChannel]
  /\ \E tracked \in BOOLEAN :
       /\ activeGames = [g \in Games |-> IF tracked THEN 1 ELSE 0]
       /\ heap = [o \in Oids |-> IF tracked /\ o = 1 THEN NewTracker
                                 ELSE FreeTracker]
  /\ cyc = [s \in Slots |-> IdleCycle]
  /\ announced = [n \in 0 .. (MaxPlays - 1) |-> 0]
  /\ gameEnds = [g \in Games |-> 0]
  /\ postedBefore = {}
  /\ lastOkLen = [g \in Games |-> -1]
  /\ lastDone = NoDone
  /\ \E b \in StartBroadcasts :
       /\ b.guildCache = GuildIds
       /\ b.channelCache = ChannelIds
       /\ \A i \in DOMAIN b.entries : b.entries[i].channelId = "c1"
       /\ broadcast = [b EXCEPT !.pc = "idle"]
  /\ apiCall = IdleApiCall
  /\ goalCall = IdleGoalCall
  /\ registry = IdleCall
  /\ testGoal \in StartTestGoals
  /\ goalsCall = IdleCall
  /\ pacing = IdleCall
  /\ legacy = IdleCall

NextTestGoal ==
  \/ TestGoalCommand
  \/ \E ok \in BOOLEAN : TestGoalDeferred(ok)
  \/ TestGoalReplies
  \/ BroadcastStart
  \/ \E ok \in BOOLEAN : SendSettles(ok)

SpecTestGoal == InitTestGoal /\ [][NextTestGoal]_vars

(* ------------------------------ fetchGoals ---------------------------- *)

\* One call of fetchGoals (src/api/goals.js 9-41) against one exchange with
\* the stats API.

\* JSON null; the number 0 (falsy, unlike the string "0").
JsNull == << "null" >>
Zero == << "number 0" >>

TeamIds == {Undefined, JsNull, << >>, Zero, << "10" >>}

\* What axios.get does: a response with a status, no response at all, or an
\* error before the request was made.
Exchanges ==
  [kind : {"response"}, status : {200, 204, 404, 500, 503}]
    \cup {[kind |-> "noResponse", status |-> 0], [kind |-> "setup", status |-> 0]}

\* The names along the path stats[0].splits[0].stat.goals.
GoalsPath == << "stats", "0", "splits", "0", "stat", "goals" >>

\* Response bodies: reach is the number of steps of GoalsPath the body has
\* (0 for null, a string or an object without stats), leaf the value found
\* at the end of a complete path, extra whether the body holds other
\* properties besides.
Bodies ==
  {b \in [reach : 0 .. Len(GoalsPath),
          leaf : {Undefined, JsNull, Zero, << "250" >>},
          extra : BOOLEAN] :
     b.reach < Len(GoalsPath) <=> b.leaf = Undefined}

RECURSIVE Chain(_, _)
\* The optional chain raw?.stats?.[0]?.splits?.[0]?.stat?.goals from step k
\* on: undefined as soon as the body lacks a step.
Chain(raw, k) ==
  IF k > Len(GoalsPath) THEN raw.leaf
  ELSE IF raw.reach < k THEN Undefined
  ELSE Chain(raw, k + 1)

\* A variant that reports no goals as zero goals.
GoalsOfOrZero(raw) ==
  IF Chain(raw, 1) # Undefined THEN raw.leaf ELSE Zero

\* goals.js 22-25
GoalsOf(raw) ==
  IF Chain(raw, 1) # Undefined THEN raw.leaf ELSE JsNull

\* A variant without the validation.
IsMissingNever(teamId) == FALSE

\* goals.js 11: !teamId && teamId !== 0
IsMissing(teamId) == teamId \in {Undefined, JsNull, << >>, Zero} /\ teamId # Zero

\* axios rejects unless the status is in 200 .. 299 (its default
\* validateStatus), goals.js 18.
Rejected(x) == x.kind # "response" \/ x.status < 200 \/ x.status >= 300

\* A variant whose catch block returns an empty result.
OnAxiosErrorSwallow(x) == [tag |-> "value", goals |-> JsNull, message |-> << >>]

\* goals.js 28-39: the catch block.
OnAxiosError(x) ==
  IF x.kind = "response"
  THEN [tag |-> "raise", goals |-> Undefined,
        message |-> << "API request failed with status", ToString(x.status) >>]
  ELSE IF x.kind = "noResponse"
  THEN [tag |-> "raise", goals |-> Undefined,
        message |-> << "Network error: No response received" >>]
  ELSE [tag |-> "raise", goals |-> Undefined, message |-> << "rethrown" >>]

StartGoalsCalls ==
  [pc : {"called"},
   teamId : TeamIds,
   exchange : Exchanges,
   body : Bodies,
   requested : {FALSE},
   result : {[tag |-> "none", goals |-> Undefined, message |-> << >>]},
   raw : {[reach |-> 0, leaf |-> Undefined, extra |-> FALSE]}]

\* goals.js 9-18: the validation, then the request.
FetchGoalsCalled ==
  /\ goalsCall.pc = "called"
  /\ IF IsMissing(goalsCall.teamId)
     THEN goalsCall' =
            [goalsCall EXCEPT
               !.pc = "done",
               !.result = [tag |-> "raise", goals |-> Undefined,
                           message |-> << "teamId is required" >>]]
     ELSE goalsCall' = [goalsCall EXCEPT !.pc = "requested", !.requested = TRUE]
  /\ UNCHANGED << botVars, broadcast, apiCall, goalCall,
                  registry, testGoal, pacing, legacy >>

\* goals.js 18-40: axios.get settles.
FetchGoalsSettles ==
  /\ goalsCall.pc = "requested"
  /\ IF Rejected(goalsCall.exchange)
     THEN goalsCall' = [goalsCall EXCEPT
                          !.pc = "done",
                          !.result = OnAxiosError(goalsCall.exchange)]
     ELSE goalsCall' =
            [goalsCall EXCEPT
               !.pc = "done",
               !.raw = goalsCall.body,
               !.result = [tag |-> "value", goals |-> GoalsOf(goalsCall.body),
                           message |-> << >>]]
  /\ UNCHANGED << botVars, broadcast, apiCall, goalCall,
                  registry, testGoal, pacing, legacy >>

\* The body of an exchange that is no success is not looked at.
InitGoals ==
  /\ InitBot
  /\ broadcast = IdleBroadcast
  /\ apiCall = IdleApiCall
  /\ goalCall = IdleGoalCall
  /\ registry = IdleCall
  /\ testGoal = IdleCall
  /\ goalsCall \in StartGoalsCalls
  /\ Rejected(goalsCall.exchange)
       => goalsCall.body = [reach |-> 0, leaf |-> Undefined, extra |-> FALSE]
  /\ pacing = IdleCall
  /\ legacy = IdleCall

NextGoals ==
  \/ FetchGoalsCalled
  \/ FetchGoalsSettles

SpecGoals == InitGoals /\ [][NextGoals]_vars

(* ------------------------- upstream request times --------------------- *)

\* The requests one poll cycle issues through fetchJSON, on a clock that
\* counts tenths of a second.  fetchJSON (nhl-api.js 17-30) calls fetch as
\* soon as it is called, and checkForGameUpdates (index.js 495, 519, 523)
\* calls the next function as soon as the previous one has returned, so a
\* request leaves when the response to the one before it has arrived.

\* IMPLEMENTATION_SUMMARY.md 134: one second, in tenths.
MinGap == 10

\* The response times considered, in tenths of a second.
Latencies == {1, 5, 10, 12, 20}

StartPacing == [pc |-> "start", clock |-> 0, sent |-> << >>]

\* fetchJSON is called for url at the current time (nhl-api.js 19).
Requested(p, url, pc) ==
  [p EXCEPT !.pc = pc, !.sent = Append(@, [url |-> url, at |-> p.clock])]

\* index.js 495: the cycle starts and asks for the schedule.
PollStarts ==
  /\ pacing.pc = "start"
  /\ pacing' = Requested(pacing, "club-schedule", "schedule")
  /\ UNCHANGED << botVars, broadcast, apiCall, goalCall,
                  registry, testGoal, goalsCall, legacy >>

\* index.js 495-520: the schedule arrives after l tenths; with a current
\* game in it the cycle asks for the landing snapshot.
GameArrives(l, ok) ==
  /\ pacing.pc = "schedule"
  /\ LET p == [pacing EXCEPT !.clock = @ + l]
     IN pacing' = IF ok THEN Requested(p, "landing", "landing")
                  ELSE [p EXCEPT !.pc = "done"]
  /\ UNCHANGED << botVars, broadcast, apiCall, goalCall,
                  registry, testGoal, goalsCall, legacy >>

\* index.js 519-523: the landing snapshot arrives; the cycle asks for the
\* play-by-play.
StatusArrives(l, ok) ==
  /\ pacing.pc = "landing"
  /\ LET p == [pacing EXCEPT !.clock = @ + l]
     IN pacing' = IF ok THEN Requested(p, "play-by-play", "feed")
                  ELSE [p EXCEPT !.pc = "done"]
  /\ UNCHANGED << botVars, broadcast, apiCall, goalCall,
                  registry, testGoal, goalsCall, legacy >>

\* index.js 523-527: the play-by-play arrives.
FeedArrives(l) ==
  /\ pacing.pc = "feed"
  /\ pacing' = [pacing EXCEPT !.pc = "done", !.clock = @ + l]
  /\ UNCHANGED << botVars, broadcast, apiCall, goalCall,
                  registry, testGoal, goalsCall, legacy >>

InitPacing ==
  /\ InitBot
  /\ broadcast = IdleBroadcast
  /\ apiCall = IdleApiCall
  /\ goalCall = IdleGoalCall
  /\ registry = IdleCall
  /\ testGoal = IdleCall
  /\ goalsCall = IdleCall
  /\ pacing = StartPacing
  /\ legacy = IdleCall

NextPacing ==
  \/ PollStarts
  \/ \E l \in Latencies, ok \in BOOLEAN : GameArrives(l, ok)
  \/ \E l \in Latencies, ok \in BOOLEAN : StatusArrives(l, ok)
  \/ \E l \in Latencies : FeedArrives(l)

SpecPacing == InitPacing /\ [][NextPacing]_vars

(* ---------------------- the tracker of leafs-updates.js ---------------- *)

\* What getGameStatus can hand to the legacy tracker: the line score of the
\* game, its period ordinal and the time remaining in it.
LegacyPeriods == {"1st", "2nd"}
LegacyClocks == {"10:00", "Final"}
LegacyStatuses ==
  [home : 0 .. MaxCount, away : 0 .. MaxCount,
   period : LegacyPeriods, time : LegacyClocks]

\* The record startTrackingGame stores for a game it did not track yet.
NewLegacyTracker ==
  [lastPeriod |-> "", lastHomeScore |-> 0, lastAwayScore |-> 0,
   lastTimeRemaining |-> ""]

\* The update one poll chooses: the first branch that applies, in the order
\* score change, period change, game end.
LegacyUpdateEndFirst(st, t) ==
  IF st.time = "Final" /\ t.lastTimeRemaining # "Final" THEN "GAME_END"
  ELSE IF st.home # t.lastHomeScore \/ st.away # t.lastAwayScore
    THEN "SCORE_UPDATE"
  ELSE IF st.period # t.lastPeriod THEN "PERIOD_UPDATE"
  ELSE ""

LegacyUpdate(st, t) ==
  IF st.home # t.lastHomeScore \/ st.away # t.lastAwayScore
    THEN "SCORE_UPDATE"
  ELSE IF st.period # t.lastPeriod THEN "PERIOD_UPDATE"
  ELSE IF st.time = "Final" /\ t.lastTimeRemaining # "Final" THEN "GAME_END"
  ELSE ""

\* No poll has compared a status with the record yet.
NoObservation ==
  [made |-> FALSE, time |-> "", prevTime |-> "", update |-> ""]

StartLegacy ==
  [pc |-> "idle",
   status |-> [home |-> 0, away |-> 0, period |-> "1st", time |-> "10:00"],
   tracked |-> FALSE, tracker |-> NewLegacyTracker,
   observed |-> NoObservation, posted |-> << >>]

\* Upstream: the game goes on between two requests. Scores and the period
\* never go back and a final game stays final.
LegacyGameMoves(st) ==
  /\ st # legacy.status
  /\ st.home >= legacy.status.home
  /\ st.away >= legacy.status.away
  /\ (st.period = "1st" => legacy.status.period = "1st")
  /\ (legacy.status.time = "Final" => st.time = "Final")
  /\ legacy' = [legacy EXCEPT !.status = st]
  /\ UNCHANGED << botVars, broadcast, apiCall, goalCall,
                  registry, testGoal, goalsCall, pacing >>

\* checkForGameUpdates up to its second await: getCurrentLeafsGame settled;
\* without a game the poll returns, with one the game is tracked from now on
\* and getGameStatus is requested.
LegacyGotGame(ok) ==
  /\ legacy.pc = "idle"
  /\ legacy' =
       IF ~ok THEN [legacy EXCEPT !.observed = NoObservation]
       ELSE [legacy EXCEPT
               !.pc = "status",
               !.observed = NoObservation,
               !.tracked = TRUE,
               !.tracker = IF legacy.tracked THEN @ ELSE NewLegacyTracker]
  /\ UNCHANGED << botVars, broadcast, apiCall, goalCall,
                  registry, testGoal, goalsCall, pacing >>

\* The rest of the poll up to the broadcast: getGameStatus settled with
\* nothing ("null"), with a body that has no teams object ("noTeams", the
\* read of teams.home raises and the catch logs it) or with a status. A status
\* is compared with the record, the record is dropped on GAME_END and
\* refreshed otherwise, and the update, if any, goes out.
LegacyGotStatus(kind) ==
  /\ legacy.pc = "status"
  /\ legacy' =
       IF kind # "ok" THEN [legacy EXCEPT !.pc = "idle"]
       ELSE
         LET st == legacy.status
             t == legacy.tracker
             u == LegacyUpdate(st, t)
             kept == u # "GAME_END"
         IN [legacy EXCEPT
               !.pc = IF u = "" THEN "idle" ELSE "send",
               !.tracked = kept,
               !.tracker =
                 IF kept
                   THEN [lastPeriod |-> st.period,
                         lastHomeScore |-> st.home,
                         lastAwayScore |-> st.away,
                         lastTimeRemaining |-> st.time]
                   ELSE @,
               !.observed =
                 [made |-> TRUE, time |-> st.time,
                  prevTime |-> t.lastTimeRemaining, update |-> u]]
  /\ UNCHANGED << botVars, broadcast, apiCall, goalCall,
                  registry, testGoal, goalsCall, pacing >>

\* sendGameUpdateToChannels settled: it catches every failure of a send, so
\* the poll returns. posted keeps the kinds of update sent so far.
LegacySent ==
  /\ legacy.pc = "send"
  /\ legacy' =
       [legacy EXCEPT
          !.pc = "idle",
          !.posted =
            IF Len(@) < MaxOps THEN Append(@, legacy.observed.update) ELSE @]
  /\ UNCHANGED << botVars, broadcast, apiCall, goalCall,
                  registry, testGoal, goalsCall, pacing >>

InitLegacy ==
  /\ InitBot
  /\ broadcast = IdleBroadcast
  /\ apiCall = IdleApiCall
  /\ goalCall = IdleGoalCall
  /\ registry = IdleCall
  /\ testGoal = IdleCall
  /\ goalsCall = IdleCall
  /\ pacing = IdleCall
  /\ legacy = StartLegacy

NextLegacy ==
  \/ \E st \in LegacyStatuses : LegacyGameMoves(st)
  \/ \E ok \in BOOLEAN : LegacyGotGame(ok)
  \/ \E kind \in {"null", "noTeams", "ok"} : LegacyGotStatus(kind)
  \/ LegacySent

SpecLegacy == InitLegacy /\ [][NextLegacy]_vars

(* ------------------------------- claims ------------------------------- *)

\* The indices lo, lo+1, ..., hi-1 in ascending order.
Indices(lo, hi) == [j \in 1 .. (hi - lo) |-> lo + j - 1]

\* The cycles whose pass over the goal list has completed in this state: the
\* one that just returned, and those awaiting their non-goal broadcast.
Passed ==
  {cyc[s] : s \in {t \in Slots : cyc[t].pc = "sendUpdate"}}
    \cup (IF lastDone.outcome = "ok" THEN {lastDone.c} ELSE {})

\* C1: within one run, against a log that only grows, no scoring index is
\* broadcast more than once.
NoDuplicateAnnouncement == \A n \in DOMAIN announced : announced[n] <= 1

CursorNeverDecreases ==
  [][\A g \in Games :
       (activeGames[g] # 0 /\ activeGames'[g] = activeGames[g])
         => heap'[activeGames[g]].lastScoringIdx
              >= heap[activeGames[g]].lastScoringIdx]_vars

\* C4: over a whole run a GAME_END notification is broadcast at most once
\* per game.
GameEndAtMostOnce == \A g \in Games : gameEnds[g] <= 1

\* C5: a completed pass that saw a terminal game state while the record's
\* stored clock was not 'Final' has chosen GAME_END and deleted the record.
TerminalEndsTracking ==
  \A c \in Passed :
    (IsTerminal(c.gameStatus.gameState) /\ c.prevTime # "Final")
      => (c.update = "GAME_END" /\ c.deleted)

\* C6: the first completed pass of a run starts from cursor -1, broadcasts
\* all m indices 0 .. m-1 in order and leaves the cursor at m-1; a completed
\* pass that follows a completed pass over the same list broadcasts nothing.
RestartReannouncement ==
  \A c \in Passed :
    LET m == Len(c.scoringPlays)
    IN /\ c.prevOk = -1
            => /\ c.startIdx = -1
               /\ c.emitted = Indices(0, m)
               /\ c.newIdx = m - 1
       /\ c.prevOk = m => c.emitted = << >>

\* C7: no scoring index broadcast before a restart is broadcast again after
\* it.
NoRepostAfterRestart == \A n \in postedBefore : announced[n] = 0

\* C8: a cycle that ended because getGameStatus or getGameFeed returned null
\* has broadcast nothing and has left a record that existed when it started
\* exactly as it was; so the cursor moves only in a cycle whose fetches both
\* succeeded.
AbortLeavesRecord ==
  LET c == lastDone.c
  IN lastDone.outcome \in {"nostatus", "nofeed"}
       => /\ c.emitted = << >>
          /\ c.update = ""
          /\ c.recAtStart.allocated
               => RecordOf(heap, activeGames, c.gameId) = c.recAtStart

AbortLeavesRecordWitness ==
  /\ lastDone.outcome = "nofeed"
  /\ lastDone.c.recAtStart.allocated
  /\ lastDone.c.recAtStart.lastScoringIdx = 0
  /\ lastDone.c.recAtStart.lastPeriod = "P1"
  /\ Len(ScoringPlaysOf(plays)) = 2
  /\ landPeriod = 2

\* C9: at most one checkForGameUpdates call is in flight at any time.
AtMostOneCycleInFlight == Cardinality(InFlight) <= 1

\* C10: overlapping cycles do not race on the record: no scoring index is
\* broadcast twice, the cursor does not move backwards, and the cursor never
\* passes an index that was not broadcast.
NoRaceOnRecord ==
  [][/\ \A n \in DOMAIN announced : announced'[n] <= 1
     /\ \A g \in Games :
          (activeGames[g] # 0 /\ activeGames'[g] = activeGames[g])
            => heap'[activeGames[g]].lastScoringIdx
                 >= heap[activeGames[g]].lastScoringIdx
     /\ \A g \in Games : \A n \in DOMAIN announced :
          (activeGames'[g] # 0 /\ n <= heap'[activeGames'[g]].lastScoringIdx)
            => announced'[n] >= 1]_vars

\* C11: a cycle that raised has delivered no notification and has left the
\* tracking store as it was before the cycle: no record created, no field of
\* an existing record changed.
RaisingCycleIsNoOp ==
  LET c == lastDone.c
  IN lastDone.outcome = "threw"
       => /\ c.emitted = << >>
          /\ c.update = ""
          /\ RecordOf(heap, activeGames, c.gameId) = c.recAtStart

\* C12: a call of checkForGameUpdates never rejects, whatever its outcome,
\* and after a call that raised internally the next timer tick can start a
\* cycle.
NoCycleFailureIsFatal ==
  /\ lastDone.outcome # "none" => lastDone.settled = "resolved"
  /\ lastDone.outcome = "threw" => ENABLED Tick

NoCycleFailureIsFatalWitness ==
  /\ lastDone.outcome = "threw"
  /\ lastDone.c.emitted = << 0 >>
  /\ lastDone.settled = "resolved"

\* C13: a finished broadcast has not raised, and it has called channel.send
\* for every entry of the registry whose guild and channel exist (entries
\* set or deleted while the broadcast ran aside), whatever happened to the
\* other entries: a missing guild, a missing channel, a rejected send.
DispatcherIsolation ==
  broadcast.pc = "done"
    => /\ ~broadcast.raised
       /\ \A i \in DOMAIN broadcast.entries :
            LET e == broadcast.entries[i]
            IN (e.guildId \notin broadcast.touched /\ Deliverable(broadcast, e))
                 => e.guildId \in broadcast.attempted

DispatcherIsolationWitness ==
  /\ broadcast.pc = "done"
  /\ broadcast.touched = {}
  /\ Len(broadcast.entries) = 2
  /\ broadcast.entries[1].guildId \in broadcast.failed
  /\ broadcast.entries[2].guildId \in broadcast.delivered

\* C14: a finished call of getCurrentLeafsGame, getNextLeafsGame,
\* getGameStatus or getGameFeed has returned a snapshot or null, never an
\* exception, and it has returned null after a transport error, a non-OK
\* status or an unparsable body.
ClientNeverRaises ==
  apiCall.pc = "done"
    => /\ apiCall.result.tag \in {"null", "value"}
       /\ apiCall.response # "json" => apiCall.result = Null

ClientNeverRaisesWitness ==
  /\ apiCall.pc = "done"
  /\ apiCall.fn = "getCurrentLeafsGame"
  /\ apiCall.response = "json"
  /\ Len(apiCall.games) = 2
  /\ apiCall.games[2] = NullEntry
  /\ apiCall.result = Null

\* C20: on a schedule of well-formed entries, getCurrentLeafsGame returns an
\* entry if and only if some entry has start <= now <= start + 4 hours and
\* gameState LIVE or CRIT; the entry returned is such an entry; otherwise it
\* returns null.
LiveGameSelection ==
  (/\ apiCall.pc = "done"
   /\ apiCall.fn = "getCurrentLeafsGame"
   /\ apiCall.response = "json"
   /\ \A i \in DOMAIN apiCall.games : apiCall.games[i].kind = "game")
    => LET live(e) == /\ e.start <= apiCall.now
                      /\ apiCall.now <= e.start + 4
                      /\ e.gameState \in {"LIVE", "CRIT"}
           r == apiCall.result
       IN /\ r.tag \in {"null", "value"}
          /\ r.tag = "value" <=> \E i \in DOMAIN apiCall.games : live(apiCall.games[i])
          /\ r.tag = "value"
               => (r.index \in DOMAIN apiCall.games /\ live(apiCall.games[r.index]))

LiveGameSelectionWitness ==
  /\ apiCall.pc = "done"
  /\ apiCall.fn = "getCurrentLeafsGame"
  /\ Len(apiCall.games) = 2
  /\ apiCall.games[1].gameState = "OFF"
  /\ apiCall.games[2].gameState = "CRIT"
  /\ apiCall.games[2].start + 4 = apiCall.now
  /\ apiCall.result = Value(2)

\* The formatted goal events: the event, the data extracted from it and the
\* fields of its embed.
Formatted == goalCall.pc = "embed"

\* The value of the embed field called name, Undefined if there is none.
FieldValue(name) ==
  LET at == {i \in DOMAIN goalCall.fields : goalCall.fields[i].name = name}
  IN IF at = {} THEN Undefined ELSE goalCall.fields[CHOOSE i \in at : TRUE].value

\* C15: the strength is decided by the first rule that matches, in the order
\* explicit tag (upper-cased), penalty shot, empty net, situation code; an
\* explicit tag wins over every conflicting tag and code.
StrengthPrecedence ==
  Formatted =>
    LET e == goalCall.goalEvent
        str == goalCall.goalData.strength
    IN /\ e.strength = << "pp" >> => str = << "PP" >>
       /\ (e.strength = Undefined /\ e.shotType = << "penalty-shot" >>)
            => str = << "PS" >>
       /\ (/\ e.strength = Undefined
           /\ e.shotType # << "penalty-shot" >>
           /\ e.goalModifier = << "empty-net" >>)
            => str = << "EN" >>
       /\ (/\ e.strength = Undefined
           /\ e.shotType # << "penalty-shot" >>
           /\ e.goalModifier # << "empty-net" >>)
            => str \in {<< "EV" >>, << "PP" >>, << "SH" >>}
       /\ e.strength = << "pp" >> => FieldValue("Strength") = << "PP" >>

StrengthPrecedenceWitness ==
  /\ Formatted
  /\ goalCall.goalEvent.strength = << "pp" >>
  /\ goalCall.goalEvent.shotType = << "penalty-shot" >>
  /\ goalCall.goalEvent.goalModifier = << "empty-net" >>
  /\ goalCall.goalEvent.situationCode = << "1", "5", "5", "1" >>
  /\ goalCall.goalEvent.eventOwnerTeamId = HomeAbbrev
  /\ goalCall.goalData.strength = << "PP" >>

\* C16: with no explicit strength, penalty-shot or empty-net tag, the
\* strength is EV when the situation code is absent or its first two
\* characters are equal; when they differ it is PP or SH, and the same
\* event scored by the other side gets the opposite one.
SituationCodeFallback ==
  (/\ Formatted
   /\ goalCall.goalEvent.strength = Undefined
   /\ goalCall.goalEvent.shotType # << "penalty-shot" >>
   /\ goalCall.goalEvent.goalModifier # << "empty-net" >>)
    => LET code == goalCall.goalEvent.situationCode
           str == goalCall.goalData.strength
           same == code = << >> \/ code[1] = code[2]
       IN /\ same => (str = << "EV" >> /\ goalCall.otherStrength = << "EV" >>)
          /\ ~same => {str, goalCall.otherStrength} = {<< "PP" >>, << "SH" >>}

SituationCodeFallbackWitness ==
  /\ Formatted
  /\ goalCall.goalEvent.strength = Undefined
  /\ goalCall.goalEvent.situationCode = << "0", "6", "5", "1" >>
  /\ goalCall.goalEvent.eventOwnerTeamId = HomeAbbrev
  /\ goalCall.goalData.strength = << "SH" >>
  /\ goalCall.otherStrength = << "PP" >>

\* A value with something to show: a string with a character that is no
\* blank.
Shown(v) == IsString(v) /\ \E i \in DOMAIN v : v[i] # " " /\ v[i] # ""

\* The names of a player are absent or blank.
Nameless(pl) ==
  /\ pl.firstName \in {Undefined, << >>, << " " >>}
  /\ pl.lastName \in {Undefined, << >>, << " " >>}

\* C17: whatever optional fields of the event are absent or blank, every
\* field of the embed has something to show: the scorer is Unknown, the
\* assists are Unassisted (also for a list of nameless players), the
\* strength is EV, the clock is TBD, and there is no Shot Type field.
FallbackCompleteness ==
  Formatted =>
    LET e == goalCall.goalEvent
        blank(v) == v \in {Undefined, << >>, << " " >>}
    IN /\ \A i \in DOMAIN goalCall.fields : Shown(goalCall.fields[i].value)
       /\ Nameless(e.scoringPlayer) => FieldValue("Scorer") = << "Unknown" >>
       /\ (\A i \in DOMAIN e.assists : Nameless(e.assists[i]))
            => FieldValue("Assists") = << "Unassisted" >>
       /\ (/\ blank(e.strength)
           /\ blank(e.shotType)
           /\ e.goalModifier = Undefined
           /\ e.situationCode = << >>)
            => FieldValue("Strength") = << "EV" >>
       /\ blank(e.timeInPeriod)
            => LET t == FieldValue("Time") IN t[Len(t)] = "TBD"
       /\ blank(e.shotType) => FieldValue("Shot Type") = Undefined

FallbackCompletenessWitness ==
  /\ Formatted
  /\ goalCall.goalEvent.scoringPlayer = NoPlayer
  /\ goalCall.goalEvent.assists = << NoPlayer, NoPlayer >>
  /\ goalCall.goalEvent.strength = << " " >>
  /\ goalCall.goalEvent.shotType = << " " >>
  /\ goalCall.goalEvent.timeInPeriod = << " " >>
  /\ goalCall.goalEvent.periodDescriptor = NoDescriptor
  /\ Len(goalCall.fields) = 4
  /\ FieldValue("Assists") = << "Unassisted" >>

\* C18: a goal event without period information is labelled P1.
PeriodFallbackIsP1 ==
  (Formatted /\ goalCall.goalEvent.periodDescriptor = NoDescriptor)
    => goalCall.goalData.period = << "P1" >>

\* C19: a descriptor of type OT is labelled OT and one of type SO is
\* labelled SO whatever its number, any other is labelled P<n> with n its
\* number, for the period of the game and for the period of a goal event.
PeriodLabel ==
  Formatted =>
    LET label(pd) == CASE pd.periodType = "OT" -> "OT"
                       [] pd.periodType = "SO" -> "SO"
                       [] pd.number = 1 -> "P1"
                       [] pd.number = 2 -> "P2"
                       [] pd.number = 3 -> "P3"
                       [] OTHER -> "P" \o ToString(pd.number)
        e == goalCall.goalEvent
    IN /\ goalCall.gameLabel = label(e.gamePeriodDescriptor)
       /\ e.periodDescriptor # NoDescriptor
            => goalCall.goalData.period = << label(e.periodDescriptor) >>

PeriodLabelWitness ==
  /\ Formatted
  /\ goalCall.goalEvent.periodDescriptor = [number |-> 5, periodType |-> "OT"]
  /\ goalCall.goalEvent.gamePeriodDescriptor = [number |-> 5, periodType |-> "SO"]
  /\ goalCall.goalData.period = << "OT" >>
  /\ goalCall.gameLabel = "SO"


\* C21: on a schedule of well-formed entries, getNextLeafsGame returns the
\* entry with the earliest start among the entries that start strictly after
\* now, and null when no entry starts after now.
NextGameSelection ==
  (/\ apiCall.pc = "done"
   /\ apiCall.fn = "getNextLeafsGame"
   /\ apiCall.response = "json"
   /\ \A i \in DOMAIN apiCall.games : apiCall.games[i].kind = "game")
    => LET later == {i \in DOMAIN apiCall.games :
                       apiCall.games[i].start > apiCall.now}
           r == apiCall.result
       IN /\ r.tag = (IF later = {} THEN "null" ELSE "value")
          /\ r.tag = "value"
               => /\ r.index \in later
                  /\ \A i \in later :
                       apiCall.games[r.index].start <= apiCall.games[i].start


\* C22: the goal events of the play-by-play log keep their relative order in
\* the filtered list (the k-th goal of the log is the k-th element), and the
\* filtered list a call took from an earlier, shorter log is a prefix of the
\* filtered list of the log as it has grown since: no index has moved.
IndexStability ==
  LET sp == ScoringPlaysOf(plays)
      pos == {i \in DOMAIN plays : plays[i].typeDescKey = "goal"}
      rank(i) == Cardinality({j \in pos : j <= i})
  IN /\ Len(sp) = Cardinality(pos)
     /\ \A i \in pos : sp[rank(i)] = plays[i]
     /\ \A s \in Slots :
          cyc[s].pc # "idle"
            => /\ Len(cyc[s].scoringPlays) <= Len(sp)
               /\ \A i \in DOMAIN cyc[s].scoringPlays :
                    sp[i] = cyc[s].scoringPlays[i]

IndexStabilityWitness ==
  \E s \in Slots :
    /\ cyc[s].pc = "sendGoal"
    /\ cyc[s].scoringPlays = << GoalPlay("valid") >>
    /\ plays = << ShotPlay, GoalPlay("valid"), GoalPlay("invalid") >>


RECURSIVE LastConfigured(_, _, _, _)
\* The channel of the latest configure of guild g among the first n logged
\* operations of one registry (configure / remove name its two operations)
\* that no later remove of g follows; NoChannel if there is none.  A setup
\* turned down for its channel type configures nothing.
LastConfigured(log, n, ops, g) ==
  IF n = 0 THEN NoChannel
  ELSE IF log[n].guildId = g /\ log[n].op = ops.remove THEN NoChannel
  ELSE IF log[n].guildId = g /\ log[n].op = ops.configure /\ log[n].text
  THEN log[n].channelId
  ELSE LastConfigured(log, n - 1, ops, g)

\* The operations of the Map of index.js and of the object of leafs-updates.js.
MapOps == [configure |-> "setup", remove |-> "stop"]
ObjectOps == [configure |-> "configureChannel", remove |-> "removeChannelConfig"]

\* C23: after any run of configure and remove operations each guild has at
\* most one entry, its channel is the one of the guild's latest configure
\* that no remove has followed (so operations on other guilds have not
\* touched it), and a remove has reported success exactly if the guild was
\* configured before it; in both registries.
DestinationRegistry ==
  registry.pc = "ready"
    => LET log == registry.log
           n == Len(log)
       IN /\ \A g \in GuildIds :
               /\ Cardinality({i \in DOMAIN registry.channels :
                                 registry.channels[i].guildId = g}) <= 1
               /\ MapGet(registry.channels, g) = LastConfigured(log, n, MapOps, g)
               /\ getConfiguredChannel(registry.object, g)
                    = LastConfigured(log, n, ObjectOps, g)
          /\ (n > 0 /\ log[n].op = "stop")
               => ((registry.reply = "stopped")
                     <=> LastConfigured(log, n - 1, MapOps, log[n].guildId)
                           # NoChannel)
          /\ (n > 0 /\ log[n].op = "removeChannelConfig")
               => (registry.returned
                     <=> LastConfigured(log, n - 1, ObjectOps, log[n].guildId)
                           # NoChannel)

\* Guild 1 was configured twice and guild 2 once, then guild 1 was removed:
\* the remove reported success and guild 2 kept its channel.
DestinationRegistryWitness ==
  /\ registry.pc = "ready"
  /\ Len(registry.log) = 3
  /\ registry.log[1] = [op |-> "setup", guildId |-> 1, channelId |-> "c1", text |-> TRUE]
  /\ registry.log[2] = [op |-> "setup", guildId |-> 2, channelId |-> "c2", text |-> TRUE]
  /\ registry.log[3].op = "stop"
  /\ registry.log[3].guildId = 1
  /\ registry.reply = "stopped"
  /\ registry.channels = << [guildId |-> 2, channelId |-> "c2"] >>


\* The /test-goal commands that got past their gates and built a payload.
Simulated == testGoal.pc \in {"sending", "replied"}

\* C24: for every period option p in 1 .. 5 the payload of the /test-goal
\* handler and that of createSimulatedGoalPayload have period P1, P2, P3 for
\* p = 1, 2, 3 and OT for p = 4, 5, and the two payloads built from the same
\* options are equal.
SimulatedPeriodMapping ==
  Simulated
    => /\ testGoal.payload = testGoal.helperPayload
       /\ testGoal.options.period.given
            => LET p == testGoal.options.period.value
                   label == CASE p = 1 -> "P1" [] p = 2 -> "P2" [] p = 3 -> "P3"
                              [] p \in {4, 5} -> "OT"
               IN /\ testGoal.payload.period = << label >>
                  /\ testGoal.helperPayload.period = << label >>

SimulatedPeriodMappingWitness ==
  /\ testGoal.pc = "replied"
  /\ testGoal.options.period = [given |-> TRUE, value |-> 4]
  /\ testGoal.options.team = << "BOS" >>
  /\ testGoal.options.scorer = Undefined
  /\ testGoal.payload.period = << "OT" >>

\* C25: for team TOR (asked for or by default) the payload has homeTeam TOR,
\* awayTeam OPP and homeScore > awayScore; for any other team it has
\* homeTeam OPP, the team as awayTeam and awayScore > homeScore; teamAbbrev
\* is the team asked for, so the side that scored leads.  This holds for the
\* handler's payload and for the helper's.
SimulatedTeamPlacement ==
  Simulated
    => \A pl \in {testGoal.payload, testGoal.helperPayload} :
         LET asked == testGoal.options.team
             team == IF asked = Undefined THEN << "TOR" >> ELSE asked
         IN /\ pl.teamAbbrev = team
            /\ team = << "TOR" >>
                 => /\ pl.homeTeam = << "TOR" >>
                    /\ pl.awayTeam = << "OPP" >>
                    /\ pl.homeScore > pl.awayScore
            /\ team # << "TOR" >>
                 => /\ pl.homeTeam = << "OPP" >>
                    /\ pl.awayTeam = team
                    /\ pl.awayScore > pl.homeScore
            /\ \/ pl.teamAbbrev = pl.homeTeam /\ pl.homeScore > pl.awayScore
               \/ pl.teamAbbrev = pl.awayTeam /\ pl.awayScore > pl.homeScore

SimulatedTeamPlacementWitness ==
  /\ testGoal.pc = "replied"
  /\ testGoal.options.team = << "TOR" >>
  /\ testGoal.payload.homeTeam = << "TOR" >>
  /\ testGoal.payload.homeScore = 2
  /\ testGoal.payload.awayScore = 1

\* C26: a /test-goal command invoked with NODE_ENV production and force not
\* true, or in a guild without a configured channel, has ended with an error
\* reply; no send was attempted, and the registry and the tracking store are
\* as the command found them.
TestGoalGating ==
  LET t == testGoal
      gated ==
        \/ t.nodeEnv = "production" /\ t.options.force # << "true" >>
        \/ \A i \in DOMAIN t.before.entries :
             t.before.entries[i].guildId # t.guildId
  IN (t.pc \notin {"idle", "invoked"} /\ gated)
       => /\ t.pc = "refused"
          /\ t.reply \in {"devOnly", "noChannel"}
          /\ broadcast.pc = "idle"
          /\ broadcast.attempted = {}
          /\ broadcast.entries = t.before.entries
          /\ activeGames = t.before.activeGames
          /\ heap = t.before.heap

\* Refused in production although the guild is configured and a game is
\* being tracked.
TestGoalGatingWitness ==
  /\ testGoal.pc = "refused"
  /\ testGoal.reply = "devOnly"
  /\ testGoal.options.force = << "false" >>
  /\ MapHas(broadcast.entries, testGoal.guildId)
  /\ Len(broadcast.entries) = 2
  /\ \E g \in Games : activeGames[g] # 0


\* C27: a call of fetchGoals with teamId undefined or null has been rejected
\* with 'teamId is required' and no request was issued.
TeamIdRequired ==
  (goalsCall.pc \notin {"idle", "called"} /\ goalsCall.teamId \in {Undefined, JsNull})
    => /\ goalsCall.pc = "done"
       /\ goalsCall.result.tag = "raise"
       /\ goalsCall.result.message = << "teamId is required" >>
       /\ ~goalsCall.requested

TeamIdRequiredWitness ==
  /\ goalsCall.pc = "done"
  /\ goalsCall.teamId = JsNull
  /\ goalsCall.exchange.status = 200
  /\ goalsCall.result.tag = "raise"

\* C28: a finished call of fetchGoals whose request was answered with a
\* status outside 200 .. 299 has been rejected with 'API request failed with
\* status <code>' and has returned no result object.
UpstreamFailureSurfaced ==
  (/\ goalsCall.pc = "done"
   /\ goalsCall.requested
   /\ goalsCall.exchange.kind = "response"
   /\ goalsCall.exchange.status \notin 200 .. 299)
    => /\ goalsCall.result.tag = "raise"
       /\ goalsCall.result.message =
            << "API request failed with status", ToString(goalsCall.exchange.status) >>

UpstreamFailureSurfacedWitness ==
  /\ goalsCall.pc = "done"
  /\ goalsCall.teamId = << "10" >>
  /\ goalsCall.exchange = [kind |-> "response", status |-> 500]
  /\ goalsCall.result.message = << "API request failed with status", "500" >>

\* C29: a finished call of fetchGoals whose request was answered with a
\* success status has returned {goals, raw}, raw being the response body and
\* goals the value at stats[0].splits[0].stat.goals if the body has that path
\* and null for every other body.
FetchGoalsResult ==
  (/\ goalsCall.pc = "done"
   /\ goalsCall.requested
   /\ goalsCall.exchange.kind = "response"
   /\ goalsCall.exchange.status \in 200 .. 299)
    => /\ goalsCall.result.tag = "value"
       /\ goalsCall.raw = goalsCall.body
       /\ goalsCall.result.goals =
            (IF goalsCall.body.reach = Len(GoalsPath) THEN goalsCall.body.leaf
             ELSE JsNull)

FetchGoalsResultWitness ==
  /\ goalsCall.pc = "done"
  /\ goalsCall.teamId = Zero
  /\ goalsCall.body = [reach |-> 5, leaf |-> Undefined, extra |-> TRUE]
  /\ goalsCall.result = [tag |-> "value", goals |-> JsNull, message |-> << >>]


\* C30: any two consecutive requests issued through fetchJSON, those of one
\* cycle included, are at least one second apart.
RateLimited ==
  pacing.pc # "idle"
    => \A i \in 2 .. Len(pacing.sent) :
         pacing.sent[i].at - pacing.sent[i - 1].at >= MinGap

\* C31: in the legacy tracker, the poll that first observes the time
\* remaining 'Final' on a tracked game chooses GAME_END and removes the
\* game's entry, whatever else changed since the poll before.
LegacyFinalEndsTracking ==
  (/\ legacy.observed.made
   /\ legacy.observed.time = "Final"
   /\ legacy.observed.prevTime # "Final")
    => (legacy.observed.update = "GAME_END" /\ ~legacy.tracked)

\* The period label a cycle computed from its landing snapshot.
LabelOf(c) == CurrentPeriodOrdinal(c.gameStatus.periodDescriptor)

\* C32: a cycle that completed its pass chose PERIOD_UPDATE exactly when the
\* label its record held before was non-empty and differs from the label it
\* computed; the first completed pass over a record never chooses one.
PeriodUpdateRule ==
  \A c \in Passed :
    /\ (c.update = "PERIOD_UPDATE")
         <=> (c.prevPeriod # "" /\ c.prevPeriod # LabelOf(c))
    /\ (c.prevSeen = -1 => c.update # "PERIOD_UPDATE")

PeriodUpdateRuleWitness ==
  /\ \E c \in Passed : c.update = "PERIOD_UPDATE"
  /\ gameEnds["G1"] = 0

TrackerRefreshed ==
  \A c \in Passed :
    ~c.deleted =>
      LET t == heap[activeGames[c.gameId]]
          st == c.gameStatus
      IN /\ activeGames[c.gameId] # 0
         /\ t.lastHomeScore = st.homeScore
         /\ t.lastAwayScore = st.awayScore
         /\ t.lastPeriod = LabelOf(c)
         /\ t.lastTimeRemaining =
              (IF IsTerminal(st.gameState) THEN "Final" ELSE st.timeRemaining)

TrackerRefreshedWitness ==
  /\ \E c \in Passed :
       /\ ~c.deleted
       /\ c.update = "PERIOD_UPDATE"
       /\ IsTerminal(c.gameStatus.gameState)
       /\ c.gameStatus.homeScore = 1
  /\ heap[activeGames["G1"]].lastTimeRemaining = "Final"

\* C35: a game whose record was deleted on GAME_END has no record in any
\* later state of the run.
RemovedIsFinal ==
  \A g \in Games : gameEnds[g] >= 1 => activeGames[g] = 0

\* C36: with a registry that has been empty all along, so that no goal
\* handed to sendGoalToChannels reached a channel, no scoring index of the
\* one record of a game that stays live is handed over a second time.
DeliveryNotRetried ==
  (~HasDestination /\ \A g \in Games : gameEnds[g] = 0)
    => \A n \in DOMAIN announced : announced[n] < 2

\* C37: the broadcast a /test-goal command started delivers to the guild the
\* command came from and to no other guild of the registry.
TestGoalIsolation ==
  testGoal.pc \in {"sending", "replied"} =>
    /\ broadcast.delivered \subseteq {testGoal.guildId}
    /\ (testGoal.pc = "replied" /\ broadcast.failed = {}
          => testGoal.guildId \in broadcast.delivered)

\* C38: while a cycle awaits the send of a goal it has chosen no period or
\* game-end update yet; while it awaits the send of that update it has
\* announced every index from the one after the cursor it started from to
\* the end of its list, in order, and the record is already deleted
\* (GAME_END) or already holds the new cursor and the refreshed fields.
OrderingInCycle ==
  \A s \in Slots :
    LET c == cyc[s]
        o == activeGames[c.gameId]
    IN /\ c.pc = "sendGoal" => (c.update = "" /\ ~c.deleted)
       /\ c.pc = "sendUpdate" =>
            /\ c.update \in {"PERIOD_UPDATE", "GAME_END"}
            /\ c.emitted = Indices(c.startIdx + 1, Len(c.scoringPlays))
            /\ IF c.update = "GAME_END"
               THEN o = 0
               ELSE /\ o # 0
                    /\ heap[o].lastScoringIdx = c.newIdx
                    /\ heap[o].lastPeriod = LabelOf(c)
                    /\ heap[o].lastHomeScore = c.gameStatus.homeScore
                    /\ heap[o].lastAwayScore = c.gameStatus.awayScore

OrderingInCycleWitness ==
  \E s \in Slots :
    /\ cyc[s].pc = "sendUpdate"
    /\ cyc[s].update = "GAME_END"
    /\ cyc[s].emitted = << 0, 1 >>
    /\ activeGames[cyc[s].gameId] = 0

====
